---- MODULE Spec2Model ----
(***************************************************************************)
(* CuistoVoice-v2: the voice agent's concurrency core.                     *)
(*                                                                         *)
(*   src/voice_agent.py      VoiceAgent: capture callback, session events, *)
(*                           reconnection loop, tool bridge, history replay *)
(*   src/functions_utils.py  music playback worker, stop_music, play_music *)
(*                                                                         *)
(* Three execution contexts are modelled: the capture callback thread      *)
(* (_audio_input_callback), the asyncio loop (event handlers and scheduled *)
(* callbacks: a handler runs without suspension, so it is one step, except *)
(* where it blocks on a thread join) and the playback worker threads.      *)
(***************************************************************************)
EXTENDS Integers, Sequences, FiniteSets, TLC

VARIABLES
    \* ---- VoiceAgent fields (voice_agent.py:145-165) ----
    running,
    connection,                          \* self.connection is not None
    waiting_for_wakeword,
    should_send_audio,
    pending_music_interrupt_check,
    interrupt_check_start_time,
    pending_non_music_wakeword_check,
    non_music_check_start_time,
    is_playing_music,
    is_user_speaking,
    needs_history_injection,
    input_buffer,                        \* number of samples in _input_buffer
    input_block_size,                    \* samples per capture block
    porcupine_frame_length,              \* samples per wake-word frame
    now,                                 \* time.time(), in seconds since no window was open
    \* ---- capture callback thread ----
    cbPc,
    cbBlock,                             \* the mode the running callback found its block in
    \* ---- asyncio loop ----
    loopQ,                               \* callbacks / coroutines scheduled from other threads
    lastBlock,                           \* the block settled by the step just taken, if any
    \* ---- functions_utils.py globals (100-106) ----
    music_interrupt_event,
    stop_playback_event,                 \* agent.stop_playback_event, alias agent_stop_event
    playback_finished_event,
    playback_interrupted,
    current_playback_thread,
    playback_cleanup_scheduled,
    threads,                             \* the playback worker threads created so far
    tool,                                \* the tool handler the loop is executing, if any
    cleanups,                            \* per worker: cleanup handoffs delivered
    \* ---- _run_agent / _connect_and_process_events ----
    runPc,
    reconnect_attempts,
    auto_reconnect,
    wait_time,                           \* the delay of the sleep in progress
    messages_history,
    history_file,                        \* the entries the history file holds
    textPc,                              \* where a send_text task stands
    injectIdx,
    sent,                                \* what the current connection has received
    \* ---- VoiceAgent.stop ----
    stopPc,                              \* where a stop() call stands
    \* ---- AudioPlayerAsync and the response.audio.delta handler ----
    queue,                               \* the chunks queued, each a sequence of samples
    frame_count,
    playing,
    last_audio_item_id,
    outdata,                             \* the block the last output callback emitted
    nextId,                              \* the number the next sample delivered will bear
    deltaPc                              \* where the handler of an audio delta stands

agentVars == <<waiting_for_wakeword, should_send_audio, pending_music_interrupt_check,
               interrupt_check_start_time, pending_non_music_wakeword_check,
               non_music_check_start_time, is_user_speaking, input_buffer, now>>
sizeVars  == <<input_block_size, porcupine_frame_length>>
cbVars    == <<cbPc, cbBlock>>
musicVars == <<stop_playback_event, playback_finished_event, playback_interrupted,
               current_playback_thread, playback_cleanup_scheduled, threads, tool, cleanups>>
runVars   == <<running, connection, needs_history_injection, runPc, reconnect_attempts,
               auto_reconnect, wait_time, messages_history, history_file, textPc,
               injectIdx, sent>>
playerVars == <<queue, frame_count, playing, last_audio_item_id, outdata, nextId, deltaPc>>
vars == <<agentVars, sizeVars, cbVars, musicVars, runVars, is_playing_music,
          music_interrupt_event, loopQ, lastBlock, stopPc, playerVars>>

----------------------------------------------------------------------------
\* Bounds of the model
MaxTime      == 6      \* the clock stops here
MaxQueue     == 1      \* scheduled loop callbacks outstanding at once
MaxThreads   == 2      \* playback workers created in one run
MaxTrack     == 2      \* longest decoded track, in samples
MaxHistory   == 2      \* longest conversation history at start
MaxCalls     == 2      \* function-call events in one run
MaxLog       == 3      \* entries the history may hold before a turn is logged
MaxBlock     == 2      \* longest capture block and longest wake-word frame, in samples
MaxBuffer    == 3      \* samples the reframing buffer may hold when a block is captured
MaxItems     == 2      \* response items whose audio is streamed
MaxChunk     == 2      \* longest audio delta, in samples
MaxSamples   == 4      \* samples delivered in one run
MaxRequest   == 3      \* most frames one output callback asks for
MaxShutdownCalls == 1  \* play_music calls handled while stop() runs
OutputBlock  == 2      \* samples per playback block: int(0.05 * sample_rate), scaled

\* Program constants
ConfirmTimeout       == 5    \* voice_agent.py:730, 748
MaxReconnectAttempts == 3    \* voice_agent.py:295
BackoffCap           == 30   \* voice_agent.py:333
CloseDelay           == 2    \* voice_agent.py:310

None == "None"
NoTime == 0 - 1        \* a start time that is None
NoBlock == [cap |-> None, fate |-> "none"]

----------------------------------------------------------------------------
\* AgentMode (spec.md section 3), read off the flags the code keeps.
AgentMode ==
    IF pending_music_interrupt_check \/ pending_non_music_wakeword_check
    THEN "ConfirmPending"
    ELSE IF waiting_for_wakeword THEN "WaitingForWakeword"
    ELSE IF should_send_audio THEN "Streaming"
    ELSE "Muted"

Forwarding == {"ConfirmPending", "Streaming"}

\* time.time() - start > 5.0
Elapsed(start) == start # NoTime /\ now - start > ConfirmTimeout

\* The program reads the clock only against the start time of an open window
\* (730, 748), so the clock is counted from the last moment no start time was set.
Rebase ==
    now' = IF interrupt_check_start_time' = NoTime /\ non_music_check_start_time' = NoTime
           THEN 0 ELSE now

\* VoiceAgent.reset_to_wakeword_state
ResetToWakewordState ==
    /\ waiting_for_wakeword' = TRUE
    /\ should_send_audio' = FALSE
    /\ is_user_speaking' = FALSE
    /\ pending_music_interrupt_check' = FALSE
    /\ interrupt_check_start_time' = NoTime
    /\ pending_non_music_wakeword_check' = FALSE
    /\ non_music_check_start_time' = NoTime
    /\ input_buffer' = 0
    /\ now' = 0

\* loop.call_soon_threadsafe / asyncio.run_coroutine_threadsafe
Schedule(task) == loopQ' = Append(loopQ, task)

SendTask(cap)      == [kind |-> "send", cap |-> cap, w |-> 0, interrupted |-> FALSE]
CleanupTask(w, i)  == [kind |-> "cleanup", cap |-> None, w |-> w, interrupted |-> i]

Settled(cap, fate) == [cap |-> cap, fate |-> fate]
Quiet == lastBlock' = NoBlock

----------------------------------------------------------------------------
\* The capture callback thread: VoiceAgent._audio_input_callback (709-820).
\* A callback starts only while the agent is running (715).  A timeout test
\* that does not fire reads flags that only this thread sets, so it is folded
\* into the step that follows it; every write to the shared flags is a step.

MusicTimedOut ==
    pending_music_interrupt_check /\ Elapsed(interrupt_check_start_time)
PlainTimedOut ==
    pending_non_music_wakeword_check /\ Elapsed(non_music_check_start_time)

CbStart      == cbPc = "idle" /\ running
AtPlainCheck == (CbStart /\ ~MusicTimedOut) \/ cbPc = "tmoP"
AtProcess    == (AtPlainCheck /\ ~PlainTimedOut) \/ cbPc = "proc"

\* 728-734: the music-interrupt window has run out.  The test of 728-730
\* reads a flag the loop also writes, so it is a step of its own; the writes
\* of 733-734 follow it
CbMusicTimeout ==
    /\ IF cbPc = "tmoM1"
       THEN /\ pending_music_interrupt_check' = FALSE
            /\ interrupt_check_start_time' = NoTime
            /\ cbPc' = "tmoM2"
       ELSE /\ CbStart /\ MusicTimedOut
            /\ cbPc' = "tmoM1"
            /\ UNCHANGED <<pending_music_interrupt_check, interrupt_check_start_time>>
    /\ Quiet
    /\ UNCHANGED <<waiting_for_wakeword, should_send_audio,
                   pending_non_music_wakeword_check, non_music_check_start_time,
                   is_user_speaking, input_buffer, sizeVars, playerVars, cbBlock, musicVars, runVars,
                   is_playing_music, music_interrupt_event, loopQ, stopPc>>
    /\ Rebase

\* A variant that clears the interrupt without testing is_playing_music
CbMusicTimeoutResumeAlways ==
    /\ cbPc = "tmoM2"
    /\ music_interrupt_event' = FALSE
    /\ ResetToWakewordState
    /\ cbPc' = "tmoP"
    /\ Quiet
    /\ UNCHANGED <<sizeVars, playerVars, stopPc, cbBlock, musicVars, runVars, is_playing_music, loopQ>>

\* 735-743: resume_music_playback() when music is playing, then reset
CbMusicTimeoutResume ==
    /\ cbPc = "tmoM2"
    /\ music_interrupt_event' = IF is_playing_music THEN FALSE ELSE music_interrupt_event
    /\ ResetToWakewordState
    /\ cbPc' = "tmoP"
    /\ Quiet
    /\ UNCHANGED <<sizeVars, playerVars, stopPc, cbBlock, musicVars, runVars, is_playing_music, loopQ>>

\* 746-751: the plain wake-word window has run out; the test of 746-748 and
\* the writes of 750-751 are two steps
CbPlainTimeout ==
    /\ IF cbPc = "tmoP1"
       THEN /\ pending_non_music_wakeword_check' = FALSE
            /\ non_music_check_start_time' = NoTime
            /\ cbPc' = "tmoP2"
       ELSE /\ AtPlainCheck /\ PlainTimedOut
            /\ cbPc' = "tmoP1"
            /\ UNCHANGED <<pending_non_music_wakeword_check, non_music_check_start_time>>
    /\ Quiet
    /\ UNCHANGED <<waiting_for_wakeword, should_send_audio, pending_music_interrupt_check,
                   interrupt_check_start_time, is_user_speaking, input_buffer, sizeVars, playerVars,
                   cbBlock, musicVars, runVars, is_playing_music, music_interrupt_event,
                   loopQ, stopPc>>
    /\ Rebase

\* A variant that closes the window without the reset of line 752
CbPlainTimeoutNoReset ==
    /\ cbPc = "tmoP2"
    /\ cbPc' = "proc"
    /\ Quiet
    /\ UNCHANGED <<agentVars, sizeVars, playerVars, stopPc, cbBlock, musicVars, runVars, is_playing_music,
                   music_interrupt_event, loopQ>>

\* 752: _reset_to_wakeword_state() after the plain window has run out
CbPlainTimeoutReset ==
    /\ cbPc = "tmoP2"
    /\ ResetToWakewordState
    /\ cbPc' = "proc"
    /\ Quiet
    /\ UNCHANGED <<sizeVars, playerVars, stopPc, cbBlock, musicVars, runVars, is_playing_music,
                   music_interrupt_event, loopQ>>

\* A variant without the test of line 755: a block goes to the gate whenever
\* no window is pending, whatever _waiting_for_wakeword says
CbProcessNoModeTest ==
    /\ AtProcess
    /\ cbBlock' = AgentMode
    /\ IF ~pending_music_interrupt_check /\ ~pending_non_music_wakeword_check
       THEN /\ input_buffer' = input_buffer + input_block_size
            /\ cbPc' = "gate"
            /\ Quiet
            /\ UNCHANGED loopQ
       ELSE /\ cbPc' = "idle"
            /\ lastBlock' = Settled(AgentMode, "not_scheduled")
            /\ UNCHANGED <<input_buffer, loopQ>>
    /\ UNCHANGED <<waiting_for_wakeword, should_send_audio, pending_music_interrupt_check,
                   interrupt_check_start_time, pending_non_music_wakeword_check,
                   non_music_check_start_time, is_user_speaking, sizeVars, playerVars, stopPc,
                   musicVars, runVars, is_playing_music, music_interrupt_event, now>>

\* A variant without the tests of lines 755 and 757: every block goes to the gate
CbProcessUngated ==
    /\ AtProcess
    /\ cbBlock' = AgentMode
    /\ input_buffer' = input_buffer + input_block_size
    /\ cbPc' = "gate"
    /\ Quiet
    /\ UNCHANGED <<waiting_for_wakeword, should_send_audio, pending_music_interrupt_check,
                   interrupt_check_start_time, pending_non_music_wakeword_check,
                   non_music_check_start_time, is_user_speaking, sizeVars, playerVars, stopPc, loopQ,
                   musicVars, runVars, is_playing_music, music_interrupt_event, now>>

\* 755-759, 803-816: the block goes to the gate, to the session, or nowhere
CbProcess ==
    /\ AtProcess
    /\ cbBlock' = AgentMode
    /\ IF waiting_for_wakeword
       THEN IF ~pending_music_interrupt_check /\ ~pending_non_music_wakeword_check
            THEN /\ input_buffer' = input_buffer + input_block_size
                 /\ cbPc' = "gate"
                 /\ Quiet
                 /\ UNCHANGED loopQ
            ELSE /\ cbPc' = "idle"
                 /\ lastBlock' = Settled(AgentMode, "not_scheduled")
                 /\ UNCHANGED <<input_buffer, loopQ>>
       ELSE IF should_send_audio
            THEN /\ Len(loopQ) < MaxQueue
                 /\ Schedule(SendTask(AgentMode))
                 /\ input_buffer' = IF is_user_speaking THEN input_buffer ELSE 0
                 /\ cbPc' = "idle"
                 /\ Quiet
            ELSE /\ cbPc' = "idle"
                 /\ lastBlock' = Settled(AgentMode, "not_scheduled")
                 /\ UNCHANGED <<input_buffer, loopQ>>
    /\ UNCHANGED <<waiting_for_wakeword, should_send_audio, pending_music_interrupt_check,
                   interrupt_check_start_time, pending_non_music_wakeword_check,
                   non_music_check_start_time, is_user_speaking, sizeVars, playerVars, stopPc,
                   musicVars, runVars, is_playing_music, music_interrupt_event, now>>

\* A variant in which an error of the gate ends the callback: the frame is
\* lost and nothing is reset
CbGateErrorEscapes ==
    /\ cbPc = "gate"
    /\ IF input_buffer < porcupine_frame_length
       THEN /\ cbPc' = "idle"
            /\ lastBlock' = Settled(cbBlock, "not_scheduled")
            /\ UNCHANGED agentVars
       ELSE \E r \in {"none", "detect", "error"} :
              /\ Quiet
              /\ CASE r = "none" ->
                        /\ input_buffer' = input_buffer - porcupine_frame_length
                        /\ cbPc' = "gate"
                        /\ UNCHANGED <<waiting_for_wakeword, should_send_audio,
                               pending_music_interrupt_check, interrupt_check_start_time,
                               pending_non_music_wakeword_check, non_music_check_start_time,
                               is_user_speaking, now>>
                   [] r = "error" ->
                        /\ input_buffer' = input_buffer - porcupine_frame_length
                        /\ cbPc' = "idle"
                        /\ UNCHANGED <<waiting_for_wakeword, should_send_audio,
                               pending_music_interrupt_check, interrupt_check_start_time,
                               pending_non_music_wakeword_check, non_music_check_start_time,
                               is_user_speaking, now>>
                   [] r = "detect" ->
                        /\ input_buffer' = input_buffer - porcupine_frame_length
                        /\ cbPc' = IF is_playing_music THEN "detM1" ELSE "detP1"
                        /\ UNCHANGED <<waiting_for_wakeword, should_send_audio,
                               pending_music_interrupt_check, interrupt_check_start_time,
                               pending_non_music_wakeword_check, non_music_check_start_time,
                               is_user_speaking, now>>
    /\ UNCHANGED <<sizeVars, playerVars, stopPc, cbBlock, musicVars, runVars, is_playing_music,
                   music_interrupt_event, loopQ>>

\* 762-801: one turn of the reframing loop; porcupine.process answers
\* "none", "detect" (keyword_index >= 0) or raises ("error")
CbGate ==
    /\ cbPc = "gate"
    /\ IF input_buffer < porcupine_frame_length
       THEN /\ cbPc' = "idle"
            /\ lastBlock' = Settled(cbBlock, "not_scheduled")
            /\ UNCHANGED agentVars
       ELSE \E r \in {"none", "detect", "error"} :
              /\ Quiet
              /\ CASE r = "none" ->
                        /\ input_buffer' = input_buffer - porcupine_frame_length
                        /\ cbPc' = "gate"
                        /\ UNCHANGED <<waiting_for_wakeword, should_send_audio,
                               pending_music_interrupt_check, interrupt_check_start_time,
                               pending_non_music_wakeword_check, non_music_check_start_time,
                               is_user_speaking, now>>
                   [] r = "error" ->
                        /\ ResetToWakewordState
                        /\ cbPc' = "gate"
                   [] r = "detect" ->
                        /\ input_buffer' = input_buffer - porcupine_frame_length
                        /\ cbPc' = IF is_playing_music THEN "detM1" ELSE "detP1"
                        /\ UNCHANGED <<waiting_for_wakeword, should_send_audio,
                               pending_music_interrupt_check, interrupt_check_start_time,
                               pending_non_music_wakeword_check, non_music_check_start_time,
                               is_user_speaking, now>>
    /\ UNCHANGED <<sizeVars, playerVars, stopPc, cbBlock, musicVars, runVars, is_playing_music,
                   music_interrupt_event, loopQ>>

\* 776-784: detection while music is playing, statement by statement
CbDetectMusic ==
    /\ cbPc \in {"detM1", "detM2", "detM3", "detM4", "detM5"}
    /\ music_interrupt_event' = IF cbPc = "detM1" THEN TRUE ELSE music_interrupt_event
    /\ pending_music_interrupt_check' =
           IF cbPc = "detM2" THEN TRUE ELSE pending_music_interrupt_check
    /\ interrupt_check_start_time' = IF cbPc = "detM3" THEN now ELSE interrupt_check_start_time
    /\ waiting_for_wakeword' = IF cbPc = "detM4" THEN FALSE ELSE waiting_for_wakeword
    /\ should_send_audio' = IF cbPc = "detM5" THEN TRUE ELSE should_send_audio
    /\ cbPc' = CASE cbPc = "detM1" -> "detM2" [] cbPc = "detM2" -> "detM3"
                  [] cbPc = "detM3" -> "detM4" [] cbPc = "detM4" -> "detM5"
                  [] cbPc = "detM5" -> "idle"
    /\ lastBlock' = IF cbPc = "detM5" THEN Settled(cbBlock, "not_scheduled") ELSE NoBlock
    /\ UNCHANGED <<pending_non_music_wakeword_check, non_music_check_start_time,
                   is_user_speaking, input_buffer, sizeVars, playerVars, stopPc, cbBlock, musicVars,
                   runVars, is_playing_music, now, loopQ>>

\* 785-791: detection without music, statement by statement
CbDetectPlain ==
    /\ cbPc \in {"detP1", "detP2", "detP3", "detP4"}
    /\ waiting_for_wakeword' = IF cbPc = "detP1" THEN FALSE ELSE waiting_for_wakeword
    /\ should_send_audio' = IF cbPc = "detP2" THEN TRUE ELSE should_send_audio
    /\ pending_non_music_wakeword_check' =
           IF cbPc = "detP3" THEN TRUE ELSE pending_non_music_wakeword_check
    /\ non_music_check_start_time' = IF cbPc = "detP4" THEN now ELSE non_music_check_start_time
    /\ cbPc' = CASE cbPc = "detP1" -> "detP2" [] cbPc = "detP2" -> "detP3"
                  [] cbPc = "detP3" -> "detP4" [] cbPc = "detP4" -> "idle"
    /\ lastBlock' = IF cbPc = "detP4" THEN Settled(cbBlock, "not_scheduled") ELSE NoBlock
    /\ UNCHANGED <<pending_music_interrupt_check, interrupt_check_start_time,
                   is_user_speaking, input_buffer, sizeVars, playerVars, stopPc, cbBlock, musicVars,
                   runVars, is_playing_music, music_interrupt_event, now, loopQ>>

\* The clock.  The program reads it against a window's start time at the head
\* of a callback (730, 748) and nowhere else, so it advances only there and
\* only while a start time is set.
Tick ==
    /\ now < MaxTime
    /\ cbPc = "idle"
    /\ interrupt_check_start_time # NoTime \/ non_music_check_start_time # NoTime
    /\ now' = now + 1
    /\ Quiet
    /\ UNCHANGED <<waiting_for_wakeword, should_send_audio, pending_music_interrupt_check,
                   interrupt_check_start_time, pending_non_music_wakeword_check,
                   non_music_check_start_time, is_user_speaking, input_buffer,
                   sizeVars, playerVars, stopPc, cbVars, musicVars, runVars, is_playing_music,
                   music_interrupt_event, loopQ>>

----------------------------------------------------------------------------
\* The asyncio loop: scheduled callbacks and session events.  A handler runs
\* only while the loop is free (no tool handler is blocking it), and session
\* events are dispatched only inside "async for event in conn" (361-362).

LoopFree    == tool.pc = "idle"
\* 361-362: the loop is inside "async for event in conn" and free to handle an event
Dispatching == runPc = "events" /\ LoopFree

\* A variant of the guard of line 682 that tests the connection only
SendGuardNoFlag == connection
\* 682: if self.connection and self._should_send_audio
SendGuard == connection /\ should_send_audio

\* VoiceAgent._send_audio_chunk (680-707); ok = FALSE: resampling or
\* input_audio_buffer.append raised and the error was swallowed (702-704)
SendAudioChunk ==
    /\ LoopFree
    /\ loopQ # <<>> /\ Head(loopQ).kind = "send"
    /\ loopQ' = Tail(loopQ)
    /\ \E ok \in BOOLEAN :
         lastBlock' = Settled(Head(loopQ).cap,
                              IF ~SendGuard THEN "dropped"
                              ELSE IF ok THEN "forwarded" ELSE "send_error")
    /\ UNCHANGED <<agentVars, sizeVars, playerVars, stopPc, cbVars, musicVars, runVars, is_playing_music,
                   music_interrupt_event>>

\* input_audio_buffer.speech_started (476-496)
EvSpeechStarted ==
    /\ Dispatching
    /\ pending_music_interrupt_check' = FALSE
    /\ interrupt_check_start_time' =
          IF pending_music_interrupt_check THEN NoTime ELSE interrupt_check_start_time
    /\ pending_non_music_wakeword_check' = FALSE
    /\ non_music_check_start_time' =
          IF pending_non_music_wakeword_check THEN NoTime ELSE non_music_check_start_time
    /\ is_user_speaking' = TRUE
    /\ Quiet
    /\ UNCHANGED <<waiting_for_wakeword, should_send_audio, input_buffer, sizeVars, playerVars, stopPc, cbVars,
                   musicVars, runVars, is_playing_music, music_interrupt_event, loopQ>>
    /\ Rebase

\* input_audio_buffer.speech_stopped (498-512)
EvSpeechStopped ==
    /\ Dispatching
    /\ is_user_speaking' = FALSE
    /\ IF ~pending_music_interrupt_check /\ ~pending_non_music_wakeword_check
       THEN /\ should_send_audio' = FALSE
            /\ waiting_for_wakeword' = TRUE
       ELSE UNCHANGED <<should_send_audio, waiting_for_wakeword>>
    /\ Quiet
    /\ UNCHANGED <<pending_music_interrupt_check, interrupt_check_start_time,
                   pending_non_music_wakeword_check, non_music_check_start_time,
                   input_buffer, sizeVars, playerVars, stopPc, cbVars, musicVars, runVars, is_playing_music,
                   music_interrupt_event, now, loopQ>>

\* response.done (425-436)
EvResponseDone ==
    /\ Dispatching
    /\ IF ~pending_music_interrupt_check
       THEN ResetToWakewordState
       ELSE UNCHANGED agentVars
    /\ Quiet
    /\ UNCHANGED <<sizeVars, playerVars, stopPc, cbVars, musicVars, runVars, is_playing_music,
                   music_interrupt_event, loopQ>>

\* error (533-546); expired: error.code == "session_expired"
EvError(expired) ==
    /\ Dispatching
    /\ needs_history_injection' = (expired \/ needs_history_injection)
    /\ IF is_playing_music
       THEN /\ music_interrupt_event' = TRUE
            /\ is_playing_music' = FALSE
            /\ ResetToWakewordState
       ELSE UNCHANGED <<music_interrupt_event, is_playing_music, agentVars>>
    /\ Quiet
    /\ UNCHANGED <<sizeVars, playerVars, stopPc, cbVars, musicVars, running, connection, runPc,
                   reconnect_attempts, auto_reconnect, wait_time, messages_history, history_file, textPc,
                   injectIdx, sent, loopQ>>

----------------------------------------------------------------------------
\* Music playback: functions_utils.py.  threads[w] is worker thread w.

NewThread(total) == [pc |-> "start", pos |-> 0, total |-> total, is_paused |-> FALSE,
                     finished_naturally |-> FALSE, active |-> FALSE, final |-> FALSE]
\* A thread that has returned: its locals are gone
DeadThread == [NewThread(0) EXCEPT !.pc = "dead"]
Workers  == 1 .. Len(threads)
Alive(w) == w \in Workers /\ threads[w].pc # "dead"        \* Thread.is_alive()
Min(a, b) == IF a < b THEN a ELSE b

\* _playback_thread_func 491-548: the stream is created and started
WorkerBegin(w) ==
    /\ threads[w].pc = "start"
    /\ threads' = [threads EXCEPT ![w].pc = "loop", ![w].active = TRUE]
    /\ playback_interrupted' = FALSE
    /\ playback_finished_event' = FALSE
    /\ Quiet
    /\ UNCHANGED <<agentVars, sizeVars, playerVars, stopPc, cbVars, runVars, is_playing_music,
                   music_interrupt_event, loopQ, stop_playback_event,
                   current_playback_thread, playback_cleanup_scheduled, tool, cleanups>>

\* The natural-finish test of the worker loop (552)
ReachedEnd(t) == t.pos >= t.total

\* What a turn of the worker loop finds to do (550-583)
Turn(t) ==
    IF stop_playback_event THEN "stop"
    ELSE IF ReachedEnd(t) THEN "finish"
    ELSE IF t.is_paused /\ ~music_interrupt_event THEN "resume"
    ELSE IF ~t.is_paused /\ music_interrupt_event THEN "pause"
    ELSE "sleep"

\* A variant whose resume starts the track again from its first sample
WorkerLoopRewinds(w) ==
    /\ threads[w].pc = "loop"
    /\ LET turn == Turn(threads[w]) IN
       /\ threads' =
             CASE turn = "stop"   -> [threads EXCEPT ![w].pc = "closing"]
               [] turn = "finish" -> [threads EXCEPT ![w].pc = "closing",
                                                     ![w].finished_naturally = TRUE]
               [] turn = "resume" -> [threads EXCEPT ![w].is_paused = FALSE,
                                                     ![w].active = TRUE,
                                                     ![w].pos = 0]
               [] turn = "pause"  -> [threads EXCEPT ![w].is_paused = TRUE,
                                                     ![w].active = FALSE]
               [] turn = "sleep"  -> threads
       /\ playback_finished_event' =
             CASE turn = "finish" -> TRUE
               [] turn \in {"resume", "pause"} -> FALSE
               [] OTHER -> playback_finished_event
       /\ playback_interrupted' = (turn = "pause" \/ playback_interrupted)
    /\ Quiet
    /\ UNCHANGED <<agentVars, sizeVars, playerVars, stopPc, cbVars, runVars, is_playing_music,
                   music_interrupt_event, loopQ, stop_playback_event,
                   current_playback_thread, playback_cleanup_scheduled, tool, cleanups>>

\* 550-587: one turn of the worker loop
WorkerLoop(w) ==
    /\ threads[w].pc = "loop"
    /\ LET turn == Turn(threads[w]) IN
       /\ threads' =
             CASE turn = "stop"   -> [threads EXCEPT ![w].pc = "closing"]
               [] turn = "finish" -> [threads EXCEPT ![w].pc = "closing",
                                                     ![w].finished_naturally = TRUE]
               [] turn = "resume" -> [threads EXCEPT ![w].is_paused = FALSE,
                                                     ![w].active = TRUE]
               [] turn = "pause"  -> [threads EXCEPT ![w].is_paused = TRUE,
                                                     ![w].active = FALSE]
               [] turn = "sleep"  -> threads
       /\ playback_finished_event' =
             CASE turn = "finish" -> TRUE
               [] turn \in {"resume", "pause"} -> FALSE
               [] OTHER -> playback_finished_event
       /\ playback_interrupted' = (turn = "pause" \/ playback_interrupted)
    /\ Quiet
    /\ UNCHANGED <<agentVars, sizeVars, playerVars, stopPc, cbVars, runVars, is_playing_music,
                   music_interrupt_event, loopQ, stop_playback_event,
                   current_playback_thread, playback_cleanup_scheduled, tool, cleanups>>

\* A variant of the except branch that does not mark the playback as interrupted
WorkerFailsUnmarked(w) ==
    /\ \/ threads[w].pc = "start"
       \/ /\ threads[w].pc = "loop"
          /\ \/ Turn(threads[w]) = "resume"
             \/ Turn(threads[w]) = "pause" /\ threads[w].active
    /\ threads' = [threads EXCEPT ![w].pc = "closing"]
    /\ UNCHANGED playback_interrupted
    /\ playback_finished_event' =
          IF threads[w].pc = "loop" /\ Turn(threads[w]) = "resume"
          THEN FALSE ELSE playback_finished_event
    /\ Quiet
    /\ UNCHANGED <<agentVars, sizeVars, playerVars, stopPc, cbVars, runVars, is_playing_music,
                   music_interrupt_event, loopQ, stop_playback_event,
                   current_playback_thread, playback_cleanup_scheduled, tool, cleanups>>

\* 600-602: the worker raises, creating or starting the stream (537-548),
\* restarting it to resume (563-564) or stopping it to pause (574-575)
WorkerFails(w) ==
    /\ \/ threads[w].pc = "start"
       \/ /\ threads[w].pc = "loop"
          /\ \/ Turn(threads[w]) = "resume"
             \/ Turn(threads[w]) = "pause" /\ threads[w].active
    /\ threads' = [threads EXCEPT ![w].pc = "closing"]
    /\ playback_interrupted' = TRUE
    /\ playback_finished_event' =
          IF threads[w].pc = "loop" /\ Turn(threads[w]) = "resume"
          THEN FALSE ELSE playback_finished_event
    /\ Quiet
    /\ UNCHANGED <<agentVars, sizeVars, playerVars, stopPc, cbVars, runVars, is_playing_music,
                   music_interrupt_event, loopQ, stop_playback_event,
                   current_playback_thread, playback_cleanup_scheduled, tool, cleanups>>

\* 507-534: the output device asks the stream callback for one block
DeviceCallback(w) ==
    /\ threads[w].pc = "loop" /\ threads[w].active
    /\ LET t == threads[w]
           remaining_data == t.total - t.pos
           chunk_size == Min(remaining_data, OutputBlock)
       IN IF chunk_size < OutputBlock
          THEN \* 522-531: pad, signal the end, raise CallbackStop
               /\ playback_finished_event' = TRUE
               /\ threads' = [threads EXCEPT ![w].active = FALSE]
          ELSE /\ threads' = [threads EXCEPT ![w].pos = t.pos + chunk_size]
               /\ UNCHANGED playback_finished_event
    /\ Quiet
    /\ UNCHANGED <<agentVars, sizeVars, playerVars, stopPc, cbVars, runVars, is_playing_music,
                   music_interrupt_event, loopQ, stop_playback_event,
                   playback_interrupted, current_playback_thread,
                   playback_cleanup_scheduled, tool, cleanups>>

\* 603-616: the stream is closed and the final state computed
WorkerClose(w) ==
    /\ threads[w].pc = "closing"
    /\ threads' = [threads EXCEPT
          ![w].pc = "handoff",
          ![w].active = FALSE,
          ![w].final = playback_interrupted /\ ~threads[w].finished_naturally
                          /\ ~stop_playback_event]
    /\ Quiet
    /\ UNCHANGED <<agentVars, sizeVars, playerVars, stopPc, cbVars, runVars, is_playing_music,
                   music_interrupt_event, loopQ, stop_playback_event,
                   playback_finished_event, playback_interrupted,
                   current_playback_thread, playback_cleanup_scheduled, tool, cleanups>>

\* A variant without the test of line 624: the worker schedules its cleanup
\* whether or not it is still the current playback thread
WorkerHandoffAlways(w) ==
    /\ threads[w].pc = "handoff"
    /\ threads' = [threads EXCEPT ![w].pc = "exiting"]
    /\ playback_cleanup_scheduled' = TRUE
    /\ Schedule(CleanupTask(w, threads[w].final))
    /\ Quiet
    /\ UNCHANGED <<agentVars, sizeVars, playerVars, stopPc, cbVars, runVars, is_playing_music,
                   music_interrupt_event, stop_playback_event,
                   playback_finished_event, playback_interrupted,
                   current_playback_thread, tool, cleanups>>

\* 620-630: under _playback_lock, the worker schedules its cleanup if it is
\* still the current playback thread
WorkerHandoff(w) ==
    /\ threads[w].pc = "handoff"
    /\ threads' = [threads EXCEPT ![w].pc = "exiting"]
    /\ IF current_playback_thread = w
       THEN /\ playback_cleanup_scheduled' = TRUE
            /\ Schedule(CleanupTask(w, threads[w].final))
       ELSE UNCHANGED <<playback_cleanup_scheduled, loopQ>>
    /\ Quiet
    /\ UNCHANGED <<agentVars, sizeVars, playerVars, stopPc, cbVars, runVars, is_playing_music,
                   music_interrupt_event, stop_playback_event,
                   playback_finished_event, playback_interrupted,
                   current_playback_thread, tool, cleanups>>

\* 632: the thread function returns; is_alive() is false from here on
WorkerExit(w) ==
    /\ threads[w].pc = "exiting"
    /\ threads' = [threads EXCEPT ![w] = DeadThread]
    /\ Quiet
    /\ UNCHANGED <<agentVars, sizeVars, playerVars, stopPc, cbVars, runVars, is_playing_music,
                   music_interrupt_event, loopQ, stop_playback_event,
                   playback_finished_event, playback_interrupted,
                   current_playback_thread, playback_cleanup_scheduled, tool, cleanups>>

\* A cleanup handoff (is_playing_music cleared, agent reset or notified)
\* is delivered for worker w
Delivered(w, kind) ==
    cleanups' = IF w \in Workers
                THEN [cleanups EXCEPT ![w] = Append(@, kind)]
                ELSE cleanups

\* _music_playback_cleanup (634-681), run by the loop
MusicPlaybackCleanup ==
    /\ LoopFree
    /\ loopQ # <<>> /\ Head(loopQ).kind = "cleanup"
    /\ loopQ' = Tail(loopQ)
    /\ IF ~playback_cleanup_scheduled
       THEN UNCHANGED <<agentVars, is_playing_music, current_playback_thread,
                        playback_cleanup_scheduled, cleanups>>
       ELSE /\ is_playing_music' = FALSE
            /\ IF ~Head(loopQ).interrupted
               THEN /\ ResetToWakewordState
                    /\ Delivered(current_playback_thread, "reset")
               ELSE /\ UNCHANGED agentVars
                    /\ Delivered(current_playback_thread, "interrupted")
            /\ current_playback_thread' = 0
            /\ playback_cleanup_scheduled' = FALSE
    /\ Quiet
    /\ UNCHANGED <<sizeVars, playerVars, stopPc, cbVars, runVars, music_interrupt_event, stop_playback_event,
                   playback_finished_event, playback_interrupted, threads, tool>>

----------------------------------------------------------------------------
\* History replay: _format_history_message_for_injection and _inject_history.
\* A history entry is described by the fields the formatter looks at.

Entry(role, content, tool_calls) ==
    [role |-> role, content |-> content, tool_calls |-> tool_calls, call |-> 0]

\* content: "str" a string; "error" the string of an error result; "audio" a list whose first part is input_audio with
\* decodable data; "audio_empty" the same without data; "audio_bad" the same
\* with data the decoder rejects; "other" anything else (None, another list)
HistoryEntries ==
    { Entry("user", c, FALSE) : c \in {"str", "audio", "audio_empty", "audio_bad", "other"} }
    \cup { Entry("assistant", c, tc) : c \in {"str", "other"}, tc \in BOOLEAN }
    \cup { Entry("tool", "str", FALSE), Entry("system", "str", FALSE) }

\* A variant of _save_history that leaves the file as it is
SaveHistorySkipped == history_file' = history_file

\* _save_history (193-199): the whole history is written to the file.  The
\* file system is taken to accept the write; a write that raises is printed
\* and dropped by 198-199 and is outside this model.
SaveHistory == history_file' = messages_history'

Item(type, role, content) == [type |-> type, role |-> role, content |-> content]
NoItem == Item(None, None, None)             \* the formatter returned None

\* 913-975
FormatHistoryMessageForInjection(m) ==
    IF m.role = "user"
    THEN IF m.content = "str" THEN Item("message", "user", "input_text")
         ELSE IF m.content = "audio" THEN Item("message", "user", "input_audio")
         ELSE IF m.content \in {"audio_empty", "audio_bad"} THEN NoItem
         ELSE Item("message", "user", None)
    ELSE IF m.role = "assistant"
    THEN IF m.tool_calls THEN Item("function_call", None, None)
         ELSE IF m.content = "str" THEN Item("message", "assistant", "text")
         ELSE NoItem
    ELSE IF m.role = "tool" THEN Item("function_call_output", None, m.content)
    ELSE NoItem

\* conn.send(formatted_item) inside the try of 983-990: ok = FALSE when it raised
Sending(src, item, ok) == [src |-> src, item |-> item, ok |-> ok, call |-> 0]

\* A variant in which the replay is started without being awaited: the flag is
\* cleared and event processing begins before any entry is sent
InjectHistoryDetached ==
    /\ runPc = "inject"
    /\ needs_history_injection' = FALSE
    /\ runPc' = "events"
    /\ Quiet
    /\ UNCHANGED <<agentVars, sizeVars, playerVars, stopPc, cbVars, musicVars, running, connection,
                   reconnect_attempts, auto_reconnect, wait_time, messages_history, history_file, textPc,
                   injectIdx, sent, is_playing_music, music_interrupt_event, loopQ>>

\* _inject_history (977-993), one history entry per step, and line 357 once
\* the loop is over
InjectHistory ==
    /\ runPc = "inject"
    /\ IF injectIdx > Len(messages_history)
       THEN /\ needs_history_injection' = FALSE
            /\ runPc' = "events"
            /\ UNCHANGED <<injectIdx, sent>>
       ELSE /\ LET message == messages_history[injectIdx]
                   formatted_item == FormatHistoryMessageForInjection(message)
               IN IF formatted_item # NoItem
                  THEN \E ok \in BOOLEAN :
                         sent' = Append(sent, Sending(injectIdx, formatted_item, ok))
                  ELSE UNCHANGED sent
            /\ injectIdx' = injectIdx + 1
            /\ UNCHANGED <<needs_history_injection, runPc>>
    /\ Quiet
    /\ UNCHANGED <<agentVars, sizeVars, playerVars, stopPc, cbVars, musicVars, running, connection,
                   reconnect_attempts, auto_reconnect, wait_time, messages_history, history_file, textPc,
                   is_playing_music, music_interrupt_event, loopQ>>

----------------------------------------------------------------------------
\* The reconnection loop: _run_agent (292-335) around
\* _connect_and_process_events (337-372).

MaxAttempts == IF auto_reconnect THEN MaxReconnectAttempts ELSE 1      \* 295

\* A variant with a linear delay
WaitTimeLinear(attempts) == Min(attempts + 1, BackoffCap)
\* 333
WaitTime(attempts) == Min(2 ^ attempts, BackoffCap)

\* 326: the run gives up
BudgetSpent(attempts) == ~auto_reconnect \/ attempts >= MaxAttempts

\* 316-335: an exception reaches _run_agent, whose counter stood at attempts
Failure(attempts) ==
    /\ reconnect_attempts' = attempts + 1
    /\ IF BudgetSpent(attempts + 1)
       THEN /\ running' = FALSE
            /\ runPc' = "done"
            /\ wait_time' = 0
       ELSE /\ wait_time' = WaitTime(attempts + 1)
            /\ runPc' = "backoff"
            /\ UNCHANGED running

\* A variant in which auto-reconnect, too, resets the counter at the head of
\* the loop
AttemptsAtTopReset ==
    IF needs_history_injection \/ auto_reconnect THEN 0 ELSE reconnect_attempts

\* 297-301: the head of the loop
AttemptsAtTop == IF needs_history_injection THEN 0 ELSE reconnect_attempts

\* 297-357: the loop head, connect(), session.update and the choice between
\* replay and event processing.  connect() may raise ("refused");
\* session.update may raise ("update_failed") after self.connection was set
\* at 340, outside the try whose finally clears it.
Connect ==
    /\ runPc = "top" /\ running
    /\ \E r \in {"ok", "refused", "update_failed"} :
         CASE r = "ok" ->
                /\ connection' = TRUE
                /\ reconnect_attempts' = AttemptsAtTop
                /\ runPc' = IF needs_history_injection THEN "inject" ELSE "events"
                /\ injectIdx' = IF needs_history_injection THEN 1 ELSE 0
                /\ sent' = <<>>
                /\ UNCHANGED <<running, wait_time>>
           [] r = "refused" ->
                /\ Failure(AttemptsAtTop)
                /\ UNCHANGED <<connection, injectIdx, sent>>
           [] r = "update_failed" ->
                /\ connection' = TRUE
                /\ Failure(AttemptsAtTop)
                /\ sent' = <<>>
                /\ UNCHANGED injectIdx
    /\ Quiet
    /\ UNCHANGED <<agentVars, sizeVars, playerVars, stopPc, cbVars, musicVars, needs_history_injection,
                   auto_reconnect, messages_history, history_file, textPc, is_playing_music,
                   music_interrupt_event, loopQ>>

\* 361, 371-372, 307-315: the event stream ends without an error
StreamEnds ==
    /\ Dispatching
    /\ connection' = FALSE
    /\ IF auto_reconnect
       THEN /\ runPc' = "sleep"
            /\ wait_time' = CloseDelay
            /\ UNCHANGED running
       ELSE /\ running' = FALSE
            /\ runPc' = "done"
            /\ UNCHANGED wait_time
    /\ Quiet
    /\ UNCHANGED <<agentVars, sizeVars, playerVars, stopPc, cbVars, musicVars, needs_history_injection,
                   reconnect_attempts, auto_reconnect, messages_history, history_file, textPc, injectIdx, sent,
                   is_playing_music, music_interrupt_event, loopQ>>

\* 361-372, 316-335: the event stream (or a handler) raises
StreamFails ==
    /\ Dispatching
    /\ connection' = FALSE
    /\ Failure(reconnect_attempts)
    /\ Quiet
    /\ UNCHANGED <<agentVars, sizeVars, playerVars, stopPc, cbVars, musicVars, needs_history_injection,
                   auto_reconnect, messages_history, history_file, textPc, injectIdx, sent,
                   is_playing_music, music_interrupt_event, loopQ>>

\* 310, 335: the sleep before the next attempt is over
Wake ==
    /\ runPc \in {"sleep", "backoff"}
    /\ runPc' = "top"
    /\ wait_time' = 0
    /\ Quiet
    /\ UNCHANGED <<agentVars, sizeVars, playerVars, stopPc, cbVars, musicVars, running, connection,
                   needs_history_injection, reconnect_attempts, auto_reconnect,
                   messages_history, history_file, textPc, injectIdx, sent, is_playing_music,
                   music_interrupt_event, loopQ>>

----------------------------------------------------------------------------
\* The tool bridge.  The handler is called synchronously
\* from _execute_tool (572), so the loop runs nothing else until it returns.

\* The handlers registered from functions.json (main.py, get_tool_handlers):
\* the two music tools and the other tools, of which calculate stands for all
\* (they run to completion inside the call and always ask for a response)
MusicTools == {"play_music", "stop_music"}
Registered == MusicTools \cup {"calculate"}
ToolNames  == Registered \cup {"unregistered_tool"}

\* pc: where the handler stands; join: the worker stop_music waits for;
\* respond: no_response_needed is false; raised: json.loads or the handler
\* raised; status: the status of a result that goes back to the assistant;
\* call: the call id of the event
IdleTool ==
    [pc |-> "idle", name |-> None, join |-> 0, respond |-> FALSE, raised |-> FALSE,
     status |-> None, call |-> 0]

\* What the caller of stop_music does with its result: play_music goes on to
\* the download (779-783), _execute_tool to its post-execution part
AfterStop(t) == IF t.name = "play_music" THEN "pm_start" ELSE "post"

\* Sends of the bridge on the connection
BridgeSend(call, item, ok) == [src |-> 0, item |-> item, ok |-> ok, call |-> call]
Output(call, output, ok) ==
    BridgeSend(call, Item("function_call_output", None, output), ok)
ResponseCreate(ok) == BridgeSend(0, Item("response.create", None, None), ok)

\* The entries the bridge appends to the history (444-466, 616-624)
CallEntry(call, content) ==
    [role |-> "assistant", content |-> content, tool_calls |-> TRUE, call |-> call]
ResultEntry(call, content) ==
    [role |-> "tool", content |-> content, tool_calls |-> FALSE, call |-> call]

\* Function-call events handled so far; the next event's call id
Calls == Cardinality({i \in DOMAIN messages_history :
                        messages_history[i].tool_calls /\ messages_history[i].call > 0})

\* response.output_item.done with a function call (438-474) and _execute_tool
\* 548-572: the call is logged; without a handler an error output is sent
\* (_send_tool_error, 643-656); with one, the interrupt is cleared before
\* play_music, the arguments are parsed and the handler is called.  text: the
\* assistant said something before the call; parsed: json.loads and the call
\* of the handler went through
EvToolCall(name) ==
    /\ Dispatching /\ connection
    /\ Calls < MaxCalls
    /\ \E text \in BOOLEAN :
         messages_history' = Append(messages_history,
                                    CallEntry(Calls + 1, IF text THEN "str" ELSE "other"))
    /\ SaveHistory
    /\ UNCHANGED textPc
    /\ IF name \notin Registered
       THEN /\ \E ok \in BOOLEAN : sent' = Append(sent, Output(Calls + 1, "error", ok))
            /\ UNCHANGED <<tool, music_interrupt_event>>
       ELSE /\ music_interrupt_event' =
                  IF name = "play_music" THEN FALSE ELSE music_interrupt_event
            /\ \E parsed \in BOOLEAN, status \in {"success", "error"} :
                 tool' = [IdleTool EXCEPT
                            !.name = name, !.call = Calls + 1,
                            !.raised = ~parsed,
                            !.respond = (parsed /\ name \notin MusicTools),
                            !.status = IF parsed /\ name \notin MusicTools
                                       THEN status ELSE None,
                            !.pc = IF ~parsed \/ name \notin MusicTools THEN "post"
                                   ELSE IF name = "play_music" THEN "pm_check"
                                   ELSE "sm_first"]
            /\ UNCHANGED sent
    /\ Quiet
    /\ UNCHANGED <<agentVars, sizeVars, playerVars, stopPc, cbVars, is_playing_music, loopQ,
                   stop_playback_event, playback_finished_event, playback_interrupted,
                   current_playback_thread, playback_cleanup_scheduled, threads, cleanups,
                   running, connection, needs_history_injection, runPc,
                   reconnect_attempts, auto_reconnect, wait_time, injectIdx>>

\* play_music 768-776
PlayMusicCheck ==
    /\ tool.pc = "pm_check"
    /\ tool' = [tool EXCEPT !.pc = IF Alive(current_playback_thread)
                                   THEN "sm_first" ELSE "pm_start"]
    /\ Quiet
    /\ UNCHANGED <<agentVars, sizeVars, playerVars, stopPc, cbVars, runVars, is_playing_music,
                   music_interrupt_event, loopQ, stop_playback_event,
                   playback_finished_event, playback_interrupted, current_playback_thread,
                   playback_cleanup_scheduled, threads, cleanups>>

\* stop_music, first lock block (693-723)
StopMusicSignal ==
    /\ tool.pc = "sm_first"
    /\ IF Alive(current_playback_thread)
       THEN /\ stop_playback_event' = TRUE
            /\ music_interrupt_event' = TRUE
            /\ tool' = [tool EXCEPT !.pc = "sm_join", !.join = current_playback_thread]
            /\ UNCHANGED <<is_playing_music, playback_cleanup_scheduled>>
       ELSE /\ is_playing_music' = FALSE
            /\ playback_cleanup_scheduled' = FALSE
            /\ music_interrupt_event' = FALSE
            /\ tool' = [tool EXCEPT !.pc = AfterStop(tool)]
            /\ UNCHANGED stop_playback_event
    /\ Quiet
    /\ UNCHANGED <<agentVars, sizeVars, playerVars, stopPc, cbVars, runVars, loopQ,
                   playback_finished_event, playback_interrupted, current_playback_thread,
                   threads, cleanups>>

\* thread_to_join.join(timeout=5.0) (728) returns: the worker has exited, or
\* five seconds have passed with the worker still alive
StopMusicJoin ==
    /\ tool.pc = "sm_join"
    /\ tool' = [tool EXCEPT !.pc = "sm_second"]
    /\ Quiet
    /\ UNCHANGED <<agentVars, sizeVars, playerVars, stopPc, cbVars, runVars, is_playing_music,
                   music_interrupt_event, loopQ, stop_playback_event,
                   playback_finished_event, playback_interrupted, current_playback_thread,
                   playback_cleanup_scheduled, threads, cleanups>>

\* stop_music, second lock block (731-757)
StopMusicFinish ==
    /\ tool.pc = "sm_second"
    /\ tool' = [tool EXCEPT !.pc = AfterStop(tool)]
    /\ IF Alive(tool.join)
       THEN /\ current_playback_thread' = 0
            /\ playback_cleanup_scheduled' = FALSE
            /\ is_playing_music' = FALSE
            /\ ResetToWakewordState
            /\ Delivered(tool.join, "reset")
            /\ UNCHANGED music_interrupt_event
       ELSE /\ IF playback_cleanup_scheduled
               THEN /\ is_playing_music' = FALSE
                    /\ ResetToWakewordState
                    /\ Delivered(tool.join, "reset")
               ELSE UNCHANGED <<is_playing_music, agentVars, cleanups>>
            /\ playback_cleanup_scheduled' = FALSE
            /\ current_playback_thread' = 0
            /\ music_interrupt_event' = FALSE
    /\ Quiet
    /\ UNCHANGED <<sizeVars, playerVars, stopPc, cbVars, runVars, loopQ, stop_playback_event,
                   playback_finished_event, playback_interrupted, threads>>

\* play_music 785-897: download and decoding either fail (the error goes back
\* to the assistant) or give a track of total samples, and the new worker is
\* started under _playback_lock (851-891)
PlayMusicStart ==
    /\ tool.pc = "pm_start"
    /\ \/ /\ tool' = [tool EXCEPT !.pc = "post", !.respond = TRUE, !.status = "error"]
          /\ UNCHANGED <<music_interrupt_event, playback_finished_event,
                         stop_playback_event, threads, current_playback_thread,
                         playback_cleanup_scheduled, should_send_audio, is_playing_music,
                         cleanups>>
       \/ /\ Len(threads) < MaxThreads
          /\ \E total \in 0 .. MaxTrack :
               threads' = Append(threads, NewThread(total))
          /\ music_interrupt_event' = FALSE
          /\ playback_finished_event' = FALSE
          /\ stop_playback_event' = FALSE
          /\ current_playback_thread' = Len(threads) + 1
          /\ playback_cleanup_scheduled' = FALSE
          /\ should_send_audio' = FALSE              \* pause_listening()
          /\ is_playing_music' = TRUE
          /\ cleanups' = Append(cleanups, <<>>)
          /\ tool' = [tool EXCEPT !.pc = "post"]
    /\ Quiet
    /\ UNCHANGED <<waiting_for_wakeword, pending_music_interrupt_check,
                   interrupt_check_start_time, pending_non_music_wakeword_check,
                   non_music_check_start_time, is_user_speaking, input_buffer, sizeVars, playerVars, stopPc,
                   cbVars, runVars, now, loopQ, playback_interrupted>>

\* no_response_needed after the try block (556, 576-578, 604): the result's
\* flag, or False once the except branch has run
NoResponseNeededAlways(failed, respond) == ~respond

NoResponseNeeded(failed, respond) == ~failed /\ ~respond

\* 631-641: the bridge resets the agent after a result that needs no reply,
\* unless the tool is play_music or a music-interrupt window is pending
BridgeNeverResets(name, no_response_needed) == FALSE

BridgeResets(name, no_response_needed) ==
    /\ no_response_needed
    /\ name # "play_music"
    /\ ~pending_music_interrupt_check

\* _execute_tool 586-641 once the handler has returned or raised.  ok1, ok2,
\* ok3: the sends of the output (588), of the error output (_send_tool_error,
\* which swallows a failure) and of response.create (629) go through.  A
\* failure of the first send lands in the except branch like a handler fault;
\* a failure of response.create leaves _handle_event and the event loop
\* (363-372) and reaches _run_agent (316-335).
ToolReturn ==
    /\ tool.pc = "post"
    /\ tool' = IdleTool
    /\ \E ok1, ok2, ok3 \in BOOLEAN :
         LET sends_output == ~tool.raised /\ tool.respond
             failed == tool.raised \/ (sends_output /\ ~ok1)
             no_response_needed == NoResponseNeeded(failed, tool.respond)
             result_output == IF failed THEN "error" ELSE "str"
         IN /\ sent' = sent
                  \o (IF sends_output THEN <<Output(tool.call, "str", ok1)>> ELSE <<>>)
                  \o (IF failed THEN <<Output(tool.call, "error", ok2)>> ELSE <<>>)
                  \o (IF no_response_needed THEN <<>> ELSE <<ResponseCreate(ok3)>>)
            /\ messages_history' =
                  Append(messages_history, ResultEntry(tool.call, result_output))
            /\ SaveHistory
            /\ UNCHANGED textPc
            /\ IF ~no_response_needed /\ ~ok3
               THEN /\ connection' = FALSE
                    /\ Failure(reconnect_attempts)
                    /\ UNCHANGED agentVars
               ELSE /\ UNCHANGED <<connection, running, runPc, reconnect_attempts,
                                   wait_time>>
                    /\ IF BridgeResets(tool.name, no_response_needed)
                       THEN ResetToWakewordState
                       ELSE UNCHANGED agentVars
    /\ Quiet
    /\ UNCHANGED <<sizeVars, playerVars, stopPc, cbVars, needs_history_injection, auto_reconnect, injectIdx,
                   is_playing_music, music_interrupt_event,
                   loopQ, stop_playback_event, playback_finished_event,
                   playback_interrupted, current_playback_thread,
                   playback_cleanup_scheduled, threads, cleanups>>

----------------------------------------------------------------------------
\* The other writers of the conversation history.  Each appends one entry and
\* calls _save_history before its next await.

\* response.done (412-436) when text has been accumulated for the response
\* (404): the assistant's turn is logged, then the mode is handled as in
\* EvResponseDone
EvResponseDoneText ==
    /\ Dispatching
    /\ Len(messages_history) < MaxLog
    /\ messages_history' = Append(messages_history, Entry("assistant", "str", FALSE))
    /\ SaveHistory
    /\ IF ~pending_music_interrupt_check
       THEN ResetToWakewordState
       ELSE UNCHANGED agentVars
    /\ Quiet
    /\ UNCHANGED <<sizeVars, playerVars, stopPc, cbVars, musicVars, running, connection,
                   needs_history_injection, runPc, reconnect_attempts, auto_reconnect,
                   wait_time, textPc, injectIdx, sent, is_playing_music,
                   music_interrupt_event, loopQ>>

\* input_audio_buffer.speech_stopped (498-531) when audio chunks of the
\* utterance have been kept (812): the mode is handled as in EvSpeechStopped,
\* then the user's turn is logged
EvSpeechStoppedAudio ==
    /\ Dispatching
    /\ Len(messages_history) < MaxLog
    /\ is_user_speaking' = FALSE
    /\ IF ~pending_music_interrupt_check /\ ~pending_non_music_wakeword_check
       THEN /\ should_send_audio' = FALSE
            /\ waiting_for_wakeword' = TRUE
       ELSE UNCHANGED <<should_send_audio, waiting_for_wakeword>>
    /\ messages_history' = Append(messages_history, Entry("user", "audio", FALSE))
    /\ SaveHistory
    /\ Quiet
    /\ UNCHANGED <<pending_music_interrupt_check, interrupt_check_start_time,
                   pending_non_music_wakeword_check, non_music_check_start_time,
                   input_buffer, now, sizeVars, playerVars, stopPc, cbVars, musicVars, running, connection,
                   needs_history_injection, runPc, reconnect_attempts, auto_reconnect,
                   wait_time, textPc, injectIdx, sent, is_playing_music,
                   music_interrupt_event, loopQ>>

\* send_text (860-886), a task of its own on the loop (functions_utils.py
\* 160, 670), up to its first await: without a connection it returns; while
\* music plays it sets the interrupt and sleeps (871-874); otherwise it logs
\* the text at once
SendTextBegin ==
    /\ LoopFree /\ textPc = "idle" /\ connection
    /\ Len(messages_history) < MaxLog
    /\ IF is_playing_music
       THEN /\ music_interrupt_event' = TRUE
            /\ textPc' = "log"
            /\ UNCHANGED <<messages_history, history_file>>
       ELSE /\ messages_history' = Append(messages_history, Entry("user", "str", FALSE))
            /\ SaveHistory
            /\ textPc' = "send"
            /\ UNCHANGED music_interrupt_event
    /\ Quiet
    /\ UNCHANGED <<agentVars, sizeVars, playerVars, stopPc, cbVars, musicVars, running, connection,
                   needs_history_injection, runPc, reconnect_attempts, auto_reconnect,
                   wait_time, injectIdx, sent, is_playing_music, loopQ>>

\* send_text 880-886 after the sleep: the text is logged
SendTextLog ==
    /\ LoopFree /\ textPc = "log"
    /\ messages_history' = Append(messages_history, Entry("user", "str", FALSE))
    /\ SaveHistory
    /\ textPc' = "send"
    /\ Quiet
    /\ UNCHANGED <<agentVars, sizeVars, playerVars, stopPc, cbVars, musicVars, running, connection,
                   needs_history_injection, runPc, reconnect_attempts, auto_reconnect,
                   wait_time, injectIdx, sent, is_playing_music, music_interrupt_event,
                   loopQ>>

\* send_text 888-908: response.cancel (a failure is swallowed), the text item
\* and response.create.  A send that raises, or a connection that has gone
\* meanwhile, ends the task, which nobody awaits
SendTextSend ==
    /\ LoopFree /\ textPc = "send"
    /\ textPc' = "idle"
    /\ IF ~connection
       THEN UNCHANGED sent
       ELSE \E ok1, ok2 \in BOOLEAN :
              sent' = sent \o <<BridgeSend(0, Item("message", "user", "input_text"), ok1)>>
                           \o (IF ok1 THEN <<ResponseCreate(ok2)>> ELSE <<>>)
    /\ Quiet
    /\ UNCHANGED <<agentVars, sizeVars, playerVars, stopPc, cbVars, musicVars, running, connection,
                   needs_history_injection, runPc, reconnect_attempts, auto_reconnect,
                   wait_time, messages_history, history_file, injectIdx,
                   is_playing_music, music_interrupt_event, loopQ>>

SendText == SendTextBegin \/ SendTextLog \/ SendTextSend

----------------------------------------------------------------------------
\* VoiceAgent.stop (232-290), a coroutine of the loop; one step per statement
\* that another thread can observe or that waits.  The devices are taken to
\* stop and close without raising; input_stream.stop() returns once no
\* capture callback is running.

\* 235-246: running is cleared, the workers are told to stop and, when music
\* plays, to pause; the sleep of 246 is taken only then
StopSignals ==
    /\ stopPc = "idle" /\ running /\ LoopFree
    /\ running' = FALSE
    /\ stop_playback_event' = TRUE
    /\ music_interrupt_event' = (is_playing_music \/ music_interrupt_event)
    /\ stopPc' = IF is_playing_music THEN "sleep" ELSE "cancel"
    /\ Quiet
    /\ UNCHANGED <<agentVars, sizeVars, playerVars, cbVars, playback_finished_event,
                   playback_interrupted, current_playback_thread,
                   playback_cleanup_scheduled, threads, tool, cleanups, connection,
                   needs_history_injection, runPc, reconnect_attempts, auto_reconnect,
                   wait_time, messages_history, history_file, textPc, injectIdx, sent,
                   is_playing_music, loopQ>>

\* 246: the sleep is over
StopSlept ==
    /\ stopPc = "sleep" /\ LoopFree
    /\ stopPc' = "cancel"
    /\ Quiet
    /\ UNCHANGED <<agentVars, sizeVars, playerVars, cbVars, musicVars, runVars, is_playing_music,
                   music_interrupt_event, loopQ>>

\* 249-256: the main task is cancelled and awaited, unless it is done.  The
\* cancellation passes through the finally of 371-372 only when the task is
\* inside the try of 359.
StopCancelsMainTask ==
    /\ stopPc = "cancel" /\ LoopFree
    /\ runPc' = "done"
    /\ connection' = IF runPc = "events" THEN FALSE ELSE connection
    /\ wait_time' = 0
    /\ stopPc' = "capture"
    /\ Quiet
    /\ UNCHANGED <<agentVars, sizeVars, playerVars, cbVars, musicVars, running,
                   needs_history_injection, reconnect_attempts, auto_reconnect,
                   messages_history, history_file, textPc, injectIdx, sent,
                   is_playing_music, music_interrupt_event, loopQ>>

\* 260-268: the capture stream is stopped and closed
StopClosesCapture ==
    /\ stopPc = "capture" /\ LoopFree
    /\ cbPc = "idle"
    /\ stopPc' = "gate"
    /\ Quiet
    /\ UNCHANGED <<agentVars, sizeVars, playerVars, cbVars, musicVars, runVars, is_playing_music,
                   music_interrupt_event, loopQ>>

\* 271-273: porcupine.delete()
StopDeletesGate ==
    /\ stopPc = "gate" /\ LoopFree
    /\ stopPc' = "player"
    /\ Quiet
    /\ UNCHANGED <<agentVars, sizeVars, playerVars, cbVars, musicVars, runVars, is_playing_music,
                   music_interrupt_event, loopQ>>

\* 276: audio_player.terminate(), the render stream of the replies
StopTerminatesPlayer ==
    /\ stopPc = "player" /\ LoopFree
    /\ stopPc' = "close"
    /\ Quiet
    /\ UNCHANGED <<agentVars, sizeVars, playerVars, cbVars, musicVars, runVars, is_playing_music,
                   music_interrupt_event, loopQ>>

\* 280-290: the connection is closed if there is one, the history is saved
StopClosesConnection ==
    /\ stopPc = "close" /\ LoopFree
    /\ connection' = FALSE
    /\ UNCHANGED messages_history
    /\ SaveHistory
    /\ stopPc' = "done"
    /\ Quiet
    /\ UNCHANGED <<agentVars, sizeVars, playerVars, cbVars, musicVars, running,
                   needs_history_injection, runPc, reconnect_attempts, auto_reconnect,
                   wait_time, textPc, injectIdx, sent,
                   is_playing_music, music_interrupt_event, loopQ>>

Stop ==
    \/ StopSignals \/ StopSlept \/ StopCancelsMainTask \/ StopClosesCapture
    \/ StopDeletesGate \/ StopTerminatesPlayer \/ StopClosesConnection

\* What stop() has torn down so far
MainTaskCancelled == stopPc \in {"capture", "gate", "player", "close", "done"}
CaptureClosed     == stopPc \in {"gate", "player", "close", "done"}
GateDeleted       == stopPc \in {"player", "close", "done"}
PlayerTerminated  == stopPc \in {"close", "done"}

----------------------------------------------------------------------------
\* AudioPlayerAsync (1001-1081) and the response.audio.delta handler
\* (383-391).  A sample is the number it was delivered under; 0 is the silence
\* the callback pads with.

NoItemId == 0                              \* last_audio_item_id is None
IdleDelta == [pc |-> "idle", item |-> NoItemId, len |-> 0, fresh |-> FALSE]

\* 1004-1021, 153: the player as constructed
PlayerIdle ==
    /\ queue = <<>> /\ frame_count = 0 /\ playing = FALSE
    /\ last_audio_item_id = NoItemId /\ outdata = <<>>
    /\ nextId = 1 /\ deltaPc = IdleDelta

RECURSIVE Flatten(_)
Flatten(q) == IF q = <<>> THEN <<>> ELSE Head(q) \o Flatten(Tail(q))

Silence(n) == [i \in 1 .. n |-> 0]

\* A variant of the loop of 1027-1033 that does not put the rest of a chunk back
RECURSIVE FillDropsRest(_, _, _)
FillDropsRest(data, q, frames) ==
    IF Len(data) < frames /\ Len(q) > 0
    THEN LET item == Head(q)
             frames_needed == frames - Len(data)
         IN FillDropsRest(data \o SubSeq(item, 1, Min(frames_needed, Len(item))),
                          Tail(q), frames)
    ELSE [data |-> data, queue |-> q]

\* 1027-1033: chunks are popped until the block is full or the queue is empty;
\* the part of a chunk that does not fit is put back at the head
RECURSIVE Fill(_, _, _)
Fill(data, q, frames) ==
    IF Len(data) < frames /\ Len(q) > 0
    THEN LET item == Head(q)
             frames_needed == frames - Len(data)
         IN Fill(data \o SubSeq(item, 1, Min(frames_needed, Len(item))),
                 IF Len(item) > frames_needed
                 THEN <<SubSeq(item, frames_needed + 1, Len(item))>> \o Tail(q)
                 ELSE Tail(q),
                 frames)
    ELSE [data |-> data, queue |-> q]

\* AudioPlayerAsync.callback (1023-1041), in the output device's thread, under
\* the player's lock
PlayerCallback ==
    /\ playing
    /\ \E frames \in 1 .. MaxRequest :
         LET filled == Fill(<<>>, queue, frames)
         IN /\ queue' = filled.queue
            /\ frame_count' = frame_count + Len(filled.data)
            /\ outdata' = filled.data \o Silence(frames - Len(filled.data))
    /\ Quiet
    /\ UNCHANGED <<agentVars, sizeVars, cbVars, musicVars, runVars, is_playing_music,
                   music_interrupt_event, loopQ, stopPc, playing, last_audio_item_id,
                   nextId, deltaPc>>

\* response.audio.delta (383-391), statement by statement where the output
\* callback can run in between: the test of 384 and _frame_count = 0 (1045),
\* whose write races with the callback's update of 1035 and may be lost; the
\* queue emptied under the lock (1046-1047) and line 386; add_data (1058-1064)
EvAudioDelta ==
    /\ runPc = "events" /\ LoopFree
    /\ CASE deltaPc.pc = "idle" ->
              \E item \in 1 .. MaxItems, len \in 0 .. MaxChunk :
                 /\ nextId + len <= MaxSamples + 1
                 /\ Len(queue) < MaxSamples
                 /\ IF item # last_audio_item_id
                    THEN /\ frame_count' \in (IF playing THEN {0, frame_count} ELSE {0})
                         /\ deltaPc' = [pc |-> "clear", item |-> item, len |-> len,
                                        fresh |-> TRUE]
                    ELSE /\ deltaPc' = [pc |-> "add", item |-> item, len |-> len,
                                        fresh |-> FALSE]
                         /\ UNCHANGED frame_count
                 /\ UNCHANGED <<queue, playing, last_audio_item_id, nextId>>
         [] deltaPc.pc = "clear" ->
              /\ queue' = <<>>
              /\ last_audio_item_id' = deltaPc.item
              /\ deltaPc' = [deltaPc EXCEPT !.pc = "add"]
              /\ UNCHANGED <<frame_count, playing, nextId>>
         [] deltaPc.pc = "add" ->
              /\ queue' = Append(queue, [i \in 1 .. deltaPc.len |-> nextId + i - 1])
              /\ nextId' = nextId + deltaPc.len
              /\ playing' = TRUE
              /\ deltaPc' = IdleDelta
              /\ UNCHANGED <<frame_count, last_audio_item_id>>
    /\ Quiet
    /\ UNCHANGED <<agentVars, sizeVars, cbVars, musicVars, runVars, is_playing_music,
                   music_interrupt_event, loopQ, stopPc, outdata>>
----------------------------------------------------------------------------
\* Initial states.

\* VoiceAgent.__init__ (145-165): the agent waits for the wake word
AgentIdle ==
    /\ waiting_for_wakeword = TRUE
    /\ should_send_audio = FALSE
    /\ pending_music_interrupt_check = FALSE
    /\ interrupt_check_start_time = NoTime
    /\ pending_non_music_wakeword_check = FALSE
    /\ non_music_check_start_time = NoTime
    /\ is_user_speaking = FALSE
    /\ input_buffer = 0
    /\ now = 0
    /\ cbPc = "idle"
    /\ cbBlock = None
    /\ loopQ = <<>>
    /\ lastBlock = NoBlock

\* functions_utils.py 100-106 and start() 229-230: nothing plays
NoMusic ==
    /\ is_playing_music = FALSE
    /\ music_interrupt_event = FALSE
    /\ stop_playback_event = FALSE
    /\ playback_finished_event = FALSE
    /\ playback_interrupted = FALSE
    /\ current_playback_thread = 0
    /\ playback_cleanup_scheduled = FALSE
    /\ threads = <<>>
    /\ tool = IdleTool
    /\ cleanups = <<>>

\* start() (202-230): running, _run_agent created and not yet connected
NotConnected ==
    /\ running = TRUE
    /\ connection = FALSE
    /\ needs_history_injection = FALSE
    /\ runPc = "top"
    /\ reconnect_attempts = 0
    /\ wait_time = 0
    /\ injectIdx = 0
    /\ sent = <<>>

\* _run_agent has connected and is inside "async for event in conn" (361)
InEvents ==
    /\ running = TRUE
    /\ connection = TRUE
    /\ needs_history_injection = FALSE
    /\ runPc = "events"
    /\ reconnect_attempts = 0
    /\ wait_time = 0
    /\ injectIdx = 0
    /\ sent = <<>>

\* The deployed agent (main.py:127-142): auto_reconnect defaults to True, the
\* history file starts empty, capture blocks and wake-word frames have the
\* same length (512 samples, one unit here).
Deployed ==
    /\ auto_reconnect = TRUE
    /\ messages_history = <<>>
    /\ history_file = <<>>
    /\ textPc = "idle"
    /\ stopPc = "idle"
    /\ PlayerIdle
    /\ input_block_size = 1
    /\ porcupine_frame_length = 1

\* play_music has started a worker on a track and returned; the response that
\* called it is done and the agent waits for the wake word
Playing(total) ==
    /\ is_playing_music = TRUE
    /\ music_interrupt_event = FALSE
    /\ stop_playback_event = FALSE
    /\ playback_finished_event = FALSE
    /\ playback_interrupted = FALSE
    /\ current_playback_thread = 1
    /\ playback_cleanup_scheduled = FALSE
    /\ threads = <<NewThread(total)>>
    /\ tool = IdleTool
    /\ cleanups = << <<>> >>

Init == AgentIdle /\ NoMusic /\ NotConnected /\ Deployed

----------------------------------------------------------------------------
Callback ==
    \/ CbMusicTimeout \/ CbMusicTimeoutResume
    \/ CbPlainTimeout \/ CbPlainTimeoutReset
    \/ CbProcess \/ CbGate
    \/ CbDetectMusic \/ CbDetectPlain

SessionEvent ==
    \/ EvSpeechStarted \/ EvSpeechStopped \/ EvResponseDone
    \/ \E expired \in BOOLEAN : EvError(expired)

Worker ==
    \E w \in Workers :
       \/ WorkerBegin(w) \/ WorkerLoop(w) \/ WorkerFails(w) \/ DeviceCallback(w)
       \/ WorkerClose(w) \/ WorkerHandoff(w) \/ WorkerExit(w)

MusicTool ==
    \/ \E name \in {"play_music", "stop_music"} : EvToolCall(name)
    \/ PlayMusicCheck \/ StopMusicSignal \/ StopMusicJoin \/ StopMusicFinish
    \/ PlayMusicStart \/ ToolReturn

ToolBridge ==
    \/ \E name \in ToolNames : EvToolCall(name)
    \/ PlayMusicCheck \/ StopMusicSignal \/ StopMusicJoin \/ StopMusicFinish
    \/ PlayMusicStart \/ ToolReturn

RunLoop == Connect \/ InjectHistory \/ StreamEnds \/ StreamFails \/ Wake

\* The agent without music: capture, gate, confirmation windows, forwarding,
\* session events and the connection's life
Next ==
    \/ CbPlainTimeout \/ CbPlainTimeoutReset \/ CbProcess \/ CbGate \/ CbDetectPlain
    \/ Tick \/ SendAudioChunk \/ SessionEvent
    \/ RunLoop

Spec == Init /\ [][Next]_vars

\* The agent while a track plays: wake-word interruption of the music
InitInterrupt == AgentIdle /\ Playing(MaxTrack) /\ InEvents /\ Deployed

NextInterrupt ==
    \/ Callback \/ Tick
    \/ EvSpeechStarted \/ EvSpeechStopped \/ EvResponseDone \/ EvError(FALSE)
    \/ Worker \/ MusicPlaybackCleanup

SpecInterrupt == InitInterrupt /\ [][NextInterrupt]_vars

\* The music tools and the playback workers
InitPlayback == AgentIdle /\ NoMusic /\ InEvents /\ Deployed

NextPlayback == MusicTool \/ Worker \/ MusicPlaybackCleanup

SpecPlayback == InitPlayback /\ [][NextPlayback]_vars

\* A worker left to play its track to the end: nobody stops it, the stream
\* does not fail, the wake word may interrupt it, and the worker, the output
\* device and the loop keep being scheduled
InitTrack == AgentIdle /\ InEvents /\ Deployed /\ \E total \in 0 .. MaxTrack : Playing(total)

WorkerThread(w) ==
    \/ WorkerBegin(w) \/ WorkerLoop(w)
    \/ WorkerClose(w) \/ WorkerHandoff(w) \/ WorkerExit(w)

NextTrack ==
    \/ WorkerThread(1) \/ DeviceCallback(1)
    \/ MusicPlaybackCleanup \/ SendAudioChunk \/ Callback \/ Tick

\* The worker thread, the output device's callback thread and the loop are
\* three schedulers: each keeps running what it has to run
SpecTrack ==
    /\ InitTrack /\ [][NextTrack]_vars
    /\ WF_vars(WorkerThread(1))
    /\ WF_vars(DeviceCallback(1))
    /\ WF_vars(MusicPlaybackCleanup)
    /\ WF_vars(SendAudioChunk)

\* Tracks of two full blocks, without and with a rest, so that the worker can
\* be paused in the middle of them
LongTracks == {2 * OutputBlock, 2 * OutputBlock + 1}

\* The worker on such a track, paused and resumed by the wake word and its
\* confirmation window; the schedulers are those of SpecTrack
InitPause == AgentIdle /\ InEvents /\ Deployed /\ \E total \in LongTracks : Playing(total)

SpecPause ==
    /\ InitPause /\ [][NextTrack]_vars
    /\ WF_vars(WorkerThread(1))
    /\ WF_vars(DeviceCallback(1))
    /\ WF_vars(MusicPlaybackCleanup)
    /\ WF_vars(SendAudioChunk)

\* The deployed agent inside "async for event in conn" once a first call has
\* been handled: a call to calculate, answered with these sends (586-595,
\* 616-629), or a call to play_music, which sends nothing
AfterFirstCall(sends) ==
    /\ running = TRUE
    /\ connection = TRUE
    /\ needs_history_injection = FALSE
    /\ runPc = "events"
    /\ reconnect_attempts = 0
    /\ wait_time = 0
    /\ injectIdx = 0
    /\ auto_reconnect = TRUE
    /\ messages_history = <<CallEntry(1, "other"), ResultEntry(1, "str")>>
    /\ history_file = messages_history
    /\ textPc = "idle"
    /\ stopPc = "idle"
    /\ PlayerIdle
    /\ sent = sends
    /\ input_block_size = 1
    /\ porcupine_frame_length = 1

\* The capture thread between two callbacks, in the mode these flags give
Listening(waiting, sending, music_check, plain_check, speaking) ==
    /\ waiting_for_wakeword = waiting
    /\ should_send_audio = sending
    /\ pending_music_interrupt_check = music_check
    /\ interrupt_check_start_time = IF music_check THEN 0 ELSE NoTime
    /\ pending_non_music_wakeword_check = plain_check
    /\ non_music_check_start_time = IF plain_check THEN 0 ELSE NoTime
    /\ is_user_speaking = speaking
    /\ input_buffer = 0
    /\ now = 0
    /\ cbPc = "idle"
    /\ cbBlock = None
    /\ loopQ = <<>>
    /\ lastBlock = NoBlock

\* 785-791 have run: a plain window is open
AgentInPlainWindow == Listening(FALSE, TRUE, FALSE, TRUE, FALSE)
\* 776-784 have run: a music-interrupt window is open
AgentInMusicWindow == Listening(FALSE, TRUE, TRUE, FALSE, FALSE)
\* 476-496 have run on a plain window: the user speaks
AgentStreaming == Listening(FALSE, TRUE, FALSE, FALSE, TRUE)

\* A track plays and the wake word has interrupted it (778)
Interrupted(total) ==
    /\ is_playing_music = TRUE
    /\ music_interrupt_event = TRUE
    /\ stop_playback_event = FALSE
    /\ playback_finished_event = FALSE
    /\ playback_interrupted = FALSE
    /\ current_playback_thread = 1
    /\ playback_cleanup_scheduled = FALSE
    /\ threads = <<NewThread(total)>>
    /\ tool = IdleTool
    /\ cleanups = << <<>> >>

\* The tool bridge with every kind of tool, from every listening mode, with
\* and without a track; the capture thread and the playback workers stay
\* where they are while the calls are handled
InitTools ==
    \/ /\ AgentIdle \/ AgentInPlainWindow \/ AgentStreaming
       /\ NoMusic
       /\ AfterFirstCall(<<Output(1, "str", TRUE), ResponseCreate(TRUE)>>)
    \/ /\ \/ AgentIdle /\ Playing(MaxTrack)
          \/ AgentInMusicWindow /\ Interrupted(MaxTrack)
       /\ AfterFirstCall(<<>>)

NextTools == ToolBridge \/ EvSpeechStarted \/ EvSpeechStopped

SpecTools == InitTools /\ [][NextTools]_vars

\* stop_music on the worker that a first call, to play_music, has started
InitStop == AgentIdle /\ Playing(MaxTrack) /\ AfterFirstCall(<<>>)

NextStop ==
    \/ EvToolCall("stop_music")
    \/ StopMusicSignal \/ StopMusicJoin \/ StopMusicFinish \/ ToolReturn
    \/ Worker \/ MusicPlaybackCleanup

SpecStop == InitStop /\ [][NextStop]_vars

\* play_music asked for while the wake word has paused the track of a first
\* call
InitReplace == AgentInMusicWindow /\ Interrupted(MaxTrack) /\ AfterFirstCall(<<>>)

NextReplace ==
    \/ EvToolCall("play_music")
    \/ PlayMusicCheck \/ StopMusicSignal \/ StopMusicJoin \/ StopMusicFinish
    \/ PlayMusicStart \/ ToolReturn
    \/ Worker \/ MusicPlaybackCleanup

SpecReplace == InitReplace /\ [][NextReplace]_vars

\* The writers of the conversation history on a live connection that has
\* handled a first call, with or without a track playing
InitHistory ==
    /\ AgentIdle \/ AgentStreaming
    /\ NoMusic \/ Playing(MaxTrack)
    /\ AfterFirstCall(<<Output(1, "str", TRUE), ResponseCreate(TRUE)>>)

NextHistory ==
    \/ \E name \in ToolNames \ MusicTools : EvToolCall(name)
    \/ ToolReturn
    \/ EvResponseDoneText \/ EvSpeechStoppedAudio
    \/ SendText

SpecHistory == InitHistory /\ [][NextHistory]_vars

\* The reconnection loop and history replay, for every history
RECURSIVE Histories(_)
Histories(n) ==
    IF n = 0 THEN {<<>>}
    ELSE LET shorter == Histories(n - 1)
         IN shorter \cup { Append(h, e) : h \in shorter, e \in HistoryEntries }

InitRun ==
    /\ AgentIdle /\ NoMusic /\ NotConnected
    /\ auto_reconnect \in BOOLEAN
    /\ messages_history \in Histories(MaxHistory)
    /\ history_file = messages_history
    /\ textPc = "idle"
    /\ stopPc = "idle"
    /\ PlayerIdle
    /\ input_block_size = 1
    /\ porcupine_frame_length = 1

NextRun == RunLoop \/ \E expired \in BOOLEAN : EvError(expired)

SpecRun == InitRun /\ [][NextRun]_vars


\* Shutdown: stop() is called while the agent listens, with or without a
\* track playing, and the capture thread and the workers go on until they
\* are stopped
InitShutdown == AgentIdle /\ (NoMusic \/ Playing(MaxTrack)) /\ InEvents /\ Deployed

NextShutdown == Callback \/ Tick \/ Stop \/ Worker \/ MusicPlaybackCleanup

SpecShutdown == InitShutdown /\ [][NextShutdown]_vars

\* Shutdown while the loop still handles the assistant's music calls: the
\* main task goes on with the session's events during the sleep of stop()
ShutdownCall == Calls < MaxShutdownCalls /\ EvToolCall("play_music")

NextStopping ==
    \/ Stop
    \/ ShutdownCall
    \/ PlayMusicCheck \/ StopMusicSignal \/ StopMusicJoin \/ StopMusicFinish
    \/ PlayMusicStart \/ ToolReturn
    \/ Worker \/ MusicPlaybackCleanup

SpecStopping == InitInterrupt /\ [][NextStopping]_vars

\* The agent without music, connected, for every capture block size and
\* every wake-word frame length (107, 125)
InitFrames ==
    /\ AgentIdle /\ NoMusic /\ InEvents
    /\ auto_reconnect = TRUE
    /\ messages_history = <<>>
    /\ history_file = <<>>
    /\ textPc = "idle"
    /\ stopPc = "idle"
    /\ PlayerIdle
    /\ input_block_size \in 1 .. MaxBlock
    /\ porcupine_frame_length \in 1 .. MaxBlock

\* A capture block arrives while the reframing buffer is within the bound
CbProcessBounded == input_buffer <= MaxBuffer /\ CbProcess

NextFrames ==
    \/ CbPlainTimeout \/ CbPlainTimeoutReset \/ CbProcessBounded \/ CbGate \/ CbDetectPlain
    \/ Tick \/ SendAudioChunk \/ EvSpeechStarted \/ EvSpeechStopped \/ EvResponseDone

SpecFrames == InitFrames /\ [][NextFrames]_vars

\* The speech player: audio deltas of a response and the output callbacks
InitPlayer == AgentStreaming /\ NoMusic /\ InEvents /\ Deployed

NextPlayer == EvAudioDelta \/ PlayerCallback

SpecPlayer == InitPlayer /\ [][NextPlayer]_vars

\* An interaction while a track plays, with the worker, the output device
\* and the loop's scheduled callbacks kept running; the session's events and
\* the wake word come when they come
SpecInteraction ==
    /\ InitInterrupt /\ [][NextInterrupt]_vars
    /\ WF_vars(WorkerThread(1))
    /\ WF_vars(DeviceCallback(1))
    /\ WF_vars(MusicPlaybackCleanup)
----------------------------------------------------------------------------
\* Properties.

\* The flags of an open plain wake-word window, as the detection leaves them
InPlainWindow ==
    /\ pending_non_music_wakeword_check /\ ~pending_music_interrupt_check
    /\ ~waiting_for_wakeword /\ should_send_audio

\* The flags of an open music-interrupt window, as the detection leaves them
InMusicWindow ==
    /\ pending_music_interrupt_check /\ ~pending_non_music_wakeword_check
    /\ ~waiting_for_wakeword /\ should_send_audio

\* input_audio_buffer.append was called for the block (whether or not the
\* call went through)
Appended(block) == block.fate \in {"forwarded", "send_error"}

\* C1 as stated: a captured block is forwarded to the session if and only if
\* the mode at the instant of capture is ConfirmPending or Streaming; a block
\* captured in ConfirmPending or Streaming is always forwarded while a
\* connection exists.
C1_ForwardedIffCaptureMode ==
    lastBlock # NoBlock =>
       /\ Appended(lastBlock) => lastBlock.cap \in Forwarding
       /\ (lastBlock.cap \in Forwarding /\ connection) => Appended(lastBlock)

\* C1, amended: a block is forwarded only if it was captured in ConfirmPending
\* or Streaming, and a block captured in any other mode is never handed to the
\* loop; a block that was handed to the loop reaches the session only if, when
\* _send_audio_chunk runs, a connection exists and _should_send_audio is still
\* true, and it is dropped when one of the two is false.
C1_ForwardedOnlyIfStillSending ==
    lastBlock # NoBlock =>
       /\ lastBlock.cap \notin Forwarding => lastBlock.fate = "not_scheduled"
       /\ Appended(lastBlock) =>
             lastBlock.cap \in Forwarding /\ connection /\ should_send_audio
       /\ lastBlock.fate = "dropped" =>
             lastBlock.cap \in Forwarding /\ ~(connection /\ should_send_audio)

\* C1: a block captured while Streaming is dropped although a connection exists
C1_DroppedWhileConnected ==
    /\ lastBlock.cap = "Streaming" /\ lastBlock.fate = "dropped"
    /\ connection

JobOver(w) ==
    /\ threads[w].pc = "dead"
    /\ tool.pc = "idle"
    /\ \A i \in 1 .. Len(loopQ) : loopQ[i].kind # "cleanup"

\* C4: the cleanup of a playback job (is_playing_music cleared and the agent
\* reset or notified) is delivered exactly once, by stop_music's forced cleanup
\* or by _music_playback_cleanup, also when stop_music runs twice or meets the
\* worker's natural completion.
C4_CleanupExactlyOnce ==
    \A w \in Workers : JobOver(w) => Len(cleanups[w]) = 1

\* C5: at most one playback worker thread is alive in every reachable state.
C5_OneWorkerAlive ==
    Cardinality({w \in Workers : Alive(w)}) <= 1

\* C6: for every track length, a worker that is never stopped and whose
\* interrupt is eventually clear for good leaves its loop and hands over one
\* cleanup with interrupted = false, after which is_playing_music is false.
C6_TrackCompletes ==
    (<>[](~music_interrupt_event))
       => <>(threads[1].pc = "dead" /\ cleanups[1] = <<"reset">> /\ ~is_playing_music)

\* What a replay of history h should put on the connection, from entry i on:
\* the item of every entry the formatter accepts, in creation order
RECURSIVE Replayable(_, _)
Replayable(h, i) ==
    IF i > Len(h) THEN <<>>
    ELSE LET item == FormatHistoryMessageForInjection(h[i])
         IN (IF item # NoItem THEN <<[src |-> i, item |-> item]>> ELSE <<>>)
               \o Replayable(h, i + 1)

\* What the connection received from the replay
Received ==
    LET went == SelectSeq(sent, LAMBDA s : s.ok)
    IN [k \in 1 .. Len(went) |-> [src |-> went[k].src, item |-> went[k].item]]

ReplayDone == runPc # "inject" /\ injectIdx > 0

\* C7: once _inject_history has returned, the new connection has received the
\* item of every replayable history entry exactly once, in creation order, and
\* nothing else.
C7_ReplayComplete ==
    ReplayDone => Received = Replayable(messages_history, 1)

\* C8: with auto-reconnect, while a replay is pending after session_expired the
\* run is never terminated by the retry budget.
C8_ExpiryNeverExhaustsBudget ==
    (auto_reconnect /\ needs_history_injection) => running

\* C9: with auto-reconnect and no expiry pending, the k-th failure is followed
\* by a retry after min(2^k, 30) seconds for k below 3, and the third failure
\* terminates the run.
C9_BudgetAndBackoff ==
    [][ (auto_reconnect /\ ~needs_history_injection
            /\ reconnect_attempts' = reconnect_attempts + 1)
        => /\ reconnect_attempts' <= MaxReconnectAttempts
           /\ IF reconnect_attempts' = MaxReconnectAttempts
              THEN ~running'
              ELSE /\ running' /\ runPc' = "backoff"
                   /\ wait_time' = Min(2 ^ (reconnect_attempts'), BackoffCap)
                   /\ wait_time' \in {2, 4}
      ]_vars

\* C9: the third failure has terminated the run
C9_ThirdFailure ==
    /\ auto_reconnect /\ ~needs_history_injection
    /\ reconnect_attempts = MaxReconnectAttempts /\ ~running /\ runPc = "done"

\* C10: when event processing ends with an exception from the event stream,
\* and when a session_expired error event is handled, the session is marked
\* for replay.
C10_MarkedForReplay ==
    [][ /\ (runPc = "events" /\ runPc' # "events"
              /\ reconnect_attempts' = reconnect_attempts + 1 /\ running')
           => needs_history_injection'
        /\ EvError(TRUE) => needs_history_injection'
      ]_vars


\* C11: on a connection established while a replay is pending, an inbound
\* event is dispatched to _handle_event only once the replay pass is over,
\* history items are replayed only during the pass, and the replay-pending
\* flag is cleared only by the step that ends the pass, after every entry has
\* had its turn.
C11_ReplayBeforeEvents ==
    [][ /\ (\/ \E expired \in BOOLEAN : EvError(expired)
            \/ \E name \in ToolNames : EvToolCall(name))
           => runPc = "events"
        /\ (Len(sent') > Len(sent) /\ sent'[Len(sent')].src > 0)
           => (runPc = "inject" /\ needs_history_injection
                 /\ sent'[Len(sent')].src = injectIdx /\ injectIdx' = injectIdx + 1)
        /\ (needs_history_injection /\ ~needs_history_injection')
           => (runPc = "inject" /\ injectIdx > Len(messages_history)
                 /\ runPc' = "events")
        /\ (runPc = "inject" /\ runPc' # "inject")
           => (injectIdx > Len(messages_history) /\ runPc' = "events")
      ]_vars

\* C11: events are being processed on a connection that replayed an entry
C11_EventsAfterReplay ==
    /\ runPc = "events" /\ connection /\ ~needs_history_injection
    /\ injectIdx > 1 /\ Len(sent) > 0

\* The history entries of kind role that carry call id c
EntriesOf(role, c) ==
    {i \in DOMAIN messages_history :
        messages_history[i].role = role /\ messages_history[i].call = c}

\* C12: once a function-call event has been handled, the history holds one
\* tool-call entry and exactly one tool-result entry with its call id,
\* whether the handler is registered or not, succeeds or raises, and whether
\* or not a reply is sent.
C12_CallAndResultLogged ==
    tool.pc = "idle" =>
       \A c \in 1 .. Calls :
          /\ Cardinality(EntriesOf("assistant", c)) = 1
          /\ Cardinality(EntriesOf("tool", c)) = 1

\* The sends a bridge step adds to the session's send log
NewSends == SubSeq(sent', Len(sent) + 1, Len(sent'))

\* C13: when a registered handler returns a result with status error and
\* no_response_needed false, the bridge appends the result message to the history
\* as the tool entry of that call, sends it as the function-call output of that
\* call, and requests a new response, each exactly once
C13_ErrorResultReported ==
    [][ (tool.pc = "post" /\ tool'.pc = "idle" /\ ~tool.raised /\ tool.respond /\ tool.status = "error")
           => /\ messages_history' = Append(messages_history, ResultEntry(tool.call, "str"))
              /\ Len(NewSends) = 2
              /\ NewSends[1].item = Item("function_call_output", None, "str")
              /\ NewSends[1].call = tool.call
              /\ NewSends[2].item = Item("response.create", None, None)
      ]_vars

\* C14: when the handler raises or the arguments cannot be parsed, the bridge
\* sends one error output for that call, appends the error as the tool entry of
\* that call and requests a new response; the fault itself never takes the run
\* loop out of event processing (only a failure of that last send, a lost
\* connection, does)
C14_HandlerFaultReported ==
    [][ (tool.pc = "post" /\ tool'.pc = "idle" /\ tool.raised)
           => /\ messages_history' = Append(messages_history, ResultEntry(tool.call, "error"))
              /\ Len(NewSends) = 2
              /\ NewSends[1].item = Item("function_call_output", None, "error")
              /\ NewSends[1].call = tool.call
              /\ NewSends[2].item = Item("response.create", None, None)
              /\ NewSends[2].ok => (runPc' = "events" /\ running' /\ connection')
      ]_vars

\* C14: a handler fault of the second call has been reported and logged, and
\* events are still being processed
C14_FaultReported ==
    /\ tool.pc = "idle" /\ runPc = "events" /\ running /\ connection
    /\ messages_history[Len(messages_history)] = ResultEntry(MaxCalls, "error")
    /\ Len(sent) >= 2
    /\ sent[Len(sent)] = ResponseCreate(TRUE)
    /\ sent[Len(sent) - 1] = Output(MaxCalls, "error", TRUE)
    /\ \A i \in DOMAIN sent : sent[i].item # Item("function_call_output", None, "str")
                                 \/ sent[i].call # MaxCalls

\* C15: a function-call event that names a tool with no registered handler is
\* answered like any result that needs a reply: an error output for that call
\* is sent and a new response is requested
C15_UnknownToolAnswered ==
    [][ (\E name \in ToolNames \ Registered : EvToolCall(name))
           => /\ Len(NewSends) = 2
              /\ NewSends[1].item = Item("function_call_output", None, "error")
              /\ NewSends[1].call = Calls + 1
              /\ NewSends[2].item = Item("response.create", None, None)
      ]_vars

\* The mode flags of the agent
ModeFlags == <<waiting_for_wakeword, should_send_audio, pending_music_interrupt_check,
               pending_non_music_wakeword_check>>

\* C16 as stated: when the result needs no reply the bridge sends nothing, appends
\* the result to the history and makes no agent-mode transition of its own
C16_BridgeLeavesMode ==
    [][ (tool.pc = "post" /\ tool'.pc = "idle" /\ ~tool.raised /\ ~tool.respond)
           => /\ sent' = sent
              /\ messages_history' = Append(messages_history, ResultEntry(tool.call, "str"))
              /\ UNCHANGED ModeFlags
      ]_vars

\* C16 amended: when the result needs no reply the bridge sends nothing and
\* appends the result to the history; it then returns the agent to
\* WaitingForWakeword, except after play_music or while a music-interrupt
\* window is pending, where it leaves the agent's flags as they are
C16_BridgeResetsUnlessMusic ==
    [][ (tool.pc = "post" /\ tool'.pc = "idle" /\ ~tool.raised /\ ~tool.respond)
           => /\ sent' = sent
              /\ messages_history' = Append(messages_history, ResultEntry(tool.call, "str"))
              /\ IF tool.name = "play_music" \/ pending_music_interrupt_check
                 THEN UNCHANGED agentVars
                 ELSE /\ waiting_for_wakeword' /\ ~should_send_audio'
                      /\ ~pending_music_interrupt_check'
                      /\ ~pending_non_music_wakeword_check'
                      /\ ~is_user_speaking'
      ]_vars

\* C16: the second call needed no reply: its result is logged, nothing was sent
\* for it, and the agent is back behind the wake-word gate with no music playing
C16_SilentResultLogged ==
    /\ tool.pc = "idle"
    /\ messages_history[Len(messages_history)] = ResultEntry(MaxCalls, "str")
    /\ \A i \in DOMAIN sent : sent[i].call # MaxCalls
    /\ sent = <<Output(1, "str", TRUE), ResponseCreate(TRUE)>>
    /\ waiting_for_wakeword /\ ~should_send_audio /\ ~is_playing_music

\* A confirmation window of either kind is open
WindowPending == pending_music_interrupt_check \/ pending_non_music_wakeword_check

\* C17: a response.done event returns the agent to WaitingForWakeword, unless a
\* confirmation window of either kind is open: then the mode flags and the
\* window (its flag and start time) are left as they are
C17_ResponseDoneKeepsWindow ==
    [][ EvResponseDone
           => IF WindowPending
              THEN UNCHANGED <<ModeFlags, interrupt_check_start_time,
                               non_music_check_start_time>>
              ELSE waiting_for_wakeword' /\ ~should_send_audio' /\ ~WindowPending'
      ]_vars

\* C18: a speech_stopped event with no window pending puts the agent back
\* behind the wake-word gate with forwarding off; with a window pending it
\* leaves the mode flags, the pending flag and the start time alone, and from
\* then on the window is closed only by its own deadline or by a
\* speech_started event
C18_SpeechStoppedKeepsWindow ==
    [][ /\ EvSpeechStopped
           => IF WindowPending
              THEN UNCHANGED <<ModeFlags, interrupt_check_start_time,
                               non_music_check_start_time>>
              ELSE waiting_for_wakeword' /\ ~should_send_audio' /\ ~WindowPending'
        /\ (WindowPending /\ ~is_user_speaking /\ ~WindowPending')
           => (EvSpeechStarted \/ CbMusicTimeout \/ CbPlainTimeout)
      ]_vars

\* C19: porcupine.process runs in a capture callback if and only if the agent
\* is in WaitingForWakeword when the callback tests its flags (755-757): a
\* frame is fed only in that mode, a callback in that mode always enters the
\* gate, and it leaves the gate without a detection only when no complete
\* frame is left in the buffer
C19_GateIffWaiting ==
    [][ /\ (CbGate /\ cbPc = "gate" /\ input_buffer >= porcupine_frame_length)
           => (cbBlock = "WaitingForWakeword" /\ AgentMode = "WaitingForWakeword")
        /\ CbProcess => (cbPc' = "gate" <=> AgentMode = "WaitingForWakeword")
        /\ (cbPc = "gate" /\ cbPc' = "idle") => input_buffer < porcupine_frame_length
      ]_vars

\* C19: while music plays, a callback in WaitingForWakeword has fed its frame to
\* the gate, which detected nothing
C19_FrameFedDuringMusic ==
    /\ cbPc = "gate" /\ cbBlock = "WaitingForWakeword"
    /\ input_buffer < porcupine_frame_length
    /\ is_playing_music /\ waiting_for_wakeword /\ ~WindowPending

\* C20: the two pending flags are never both set, and a detection, like every
\* write that sets a pending flag, happens only while no window is pending
C20_OneWindow ==
    /\ [](~(pending_music_interrupt_check /\ pending_non_music_wakeword_check))
    /\ [][ /\ (cbPc = "gate" /\ cbPc' \in {"detM1", "detP1"}) => ~WindowPending
           /\ (~pending_music_interrupt_check /\ pending_music_interrupt_check')
              => ~WindowPending
           /\ (~pending_non_music_wakeword_check /\ pending_non_music_wakeword_check')
              => ~WindowPending
         ]_vars

\* C20: a callback has run while a music-interrupt window is pending and has
\* forwarded its block instead of feeding the gate
C20_CallbackDuringWindow ==
    /\ pending_music_interrupt_check /\ ~pending_non_music_wakeword_check
    /\ cbPc = "idle" /\ cbBlock = "ConfirmPending"
    /\ Len(loopQ) > 0 /\ loopQ[Len(loopQ)] = SendTask("ConfirmPending")

\* C21: self.connection refers to a connection only while
\* _connect_and_process_events is inside its connection: once that call has
\* exited, on any path, the reference is None
C21_NoStaleConnection ==
    runPc \in {"top", "sleep", "backoff", "done"} => ~connection

C23_SilentAfterGivingUp ==
    (runPc = "done" /\ ~running)
       => (~should_send_audio /\ ~WindowPending /\ ~is_playing_music)

\* The worker is in its loop with the stream running / with the stream stopped
WorkerPlaying(w) == threads[w].pc = "loop" /\ ~threads[w].is_paused
WorkerPaused(w)  == threads[w].pc = "loop" /\ threads[w].is_paused

\* C24: a playing worker that finds the interrupt set stops its stream,
\* without leaving its loop, and is paused; a paused worker that finds the
\* interrupt cleared restarts the stream and plays; the position stays where
\* it is while the worker is paused and across both steps and never goes
\* back; and the worker does get to see a signal that stays
C24_PauseAndResume ==
    /\ [][ /\ threads'[1].pc # "dead" => threads'[1].pos >= threads[1].pos
           /\ WorkerPaused(1) => threads'[1].pos = threads[1].pos
           /\ (WorkerPlaying(1) /\ WorkerPaused(1)')
              => (music_interrupt_event /\ ~threads'[1].active
                    /\ threads'[1].pos = threads[1].pos)
           /\ (WorkerPaused(1) /\ WorkerPlaying(1)')
              => (~music_interrupt_event /\ threads'[1].active
                    /\ threads'[1].pos = threads[1].pos)
         ]_vars
    /\ (WorkerPlaying(1) /\ music_interrupt_event)
          ~> (WorkerPaused(1) \/ threads[1].pc # "loop" \/ ~music_interrupt_event)
    /\ (WorkerPaused(1) /\ ~music_interrupt_event)
          ~> (WorkerPlaying(1) \/ threads[1].pc # "loop" \/ music_interrupt_event)

\* C24: the worker plays again after a pause in the middle of its track
C24_ResumedMidTrack ==
    /\ WorkerPlaying(1) /\ threads[1].active
    /\ threads[1].pos > 0 /\ threads[1].pos < threads[1].total
    /\ playback_interrupted /\ ~music_interrupt_event

\* Worker w is alive, is not the current playback thread any more and a
\* cleanup has been delivered for its job
Abandoned(w) == Alive(w) /\ current_playback_thread # w /\ cleanups[w] # <<>>

\* C25: stop_music on a live worker sets the stop and the interrupt signal and
\* joins it; when the join times out, stop_music itself clears is_playing_music,
\* resets the agent, clears the reference to the job and delivers the cleanup;
\* the worker it abandoned schedules no cleanup when it leaves, and no second
\* cleanup is delivered for its job
C25_StopAbandonsWorker ==
    [][ /\ (tool.pc = "sm_first" /\ Alive(current_playback_thread) /\ tool'.pc # "sm_first")
           => (stop_playback_event' /\ music_interrupt_event'
                 /\ tool'.pc = "sm_join" /\ tool'.join = current_playback_thread)
        /\ (tool.pc = "sm_second" /\ Alive(tool.join) /\ tool'.pc # "sm_second")
           => (~is_playing_music' /\ AgentMode' = "WaitingForWakeword"
                 /\ current_playback_thread' = 0 /\ ~playback_cleanup_scheduled'
                 /\ cleanups'[tool.join] = Append(cleanups[tool.join], "reset"))
        /\ \A w \in Workers :
              Abandoned(w)
                 => /\ cleanups'[w] = cleanups[w]
                    /\ (threads[w].pc = "handoff" /\ threads'[w].pc # "handoff")
                       => UNCHANGED <<loopQ, playback_cleanup_scheduled>>
      ]_vars

\* C25: stop_music has timed out on worker 1, forced the cleanup and
\* returned, and the worker is now on its way out
C25_AbandonedWorkerLeaving ==
    /\ tool.pc = "idle"
    /\ threads # <<>> /\ threads[1].pc = "handoff"
    /\ cleanups[1] = <<"reset">>
    /\ current_playback_thread = 0 /\ ~is_playing_music

\* C26: a worker that fails while no stop is requested leaves as an
\* interrupted finish: its final state is interrupted, it schedules one cleanup
\* carrying that state, and the cleanup clears is_playing_music and the
\* reference to the job and leaves the agent's flags alone; once the job is
\* over, exactly one cleanup has been delivered for it and nothing plays
C26_FailureIsInterruptedFinish ==
    /\ [][ /\ (threads[1].pc = "closing" /\ ~threads[1].finished_naturally
                 /\ ~stop_playback_event /\ threads'[1].pc = "handoff")
              => threads'[1].final
           /\ (threads[1].pc = "handoff" /\ threads[1].final /\ threads'[1].pc = "exiting")
              => (loopQ' = Append(loopQ, CleanupTask(1, TRUE))
                    /\ playback_cleanup_scheduled')
           /\ (loopQ # <<>> /\ Head(loopQ) = CleanupTask(1, TRUE) /\ loopQ' = Tail(loopQ))
              => (~is_playing_music' /\ current_playback_thread' = 0
                    /\ cleanups'[1] = <<"interrupted">> /\ UNCHANGED agentVars)
         ]_vars
    /\ [](JobOver(1) => (Len(cleanups[1]) = 1 /\ ~is_playing_music
                           /\ current_playback_thread = 0))

\* C26: the worker has failed and returned, and its one cleanup has been
\* delivered as an interrupted finish
C26_FailedJobCleaned ==
    /\ threads[1].pc = "dead" /\ cleanups[1] = <<"interrupted">>
    /\ ~is_playing_music /\ current_playback_thread = 0 /\ loopQ = <<>>
    /\ ~stop_playback_event

\* C27: the agent's mode has a single writer: a step that changes the mode
\* flags or a window's start time is never a step of the capture callback
\* thread
C27_ModeWrittenByLoopOnly ==
    [][ <<ModeFlags, interrupt_check_start_time, non_music_check_start_time>>'
          # <<ModeFlags, interrupt_check_start_time, non_music_check_start_time>>
        => cbPc' = cbPc ]_vars

\* The session's confirmation of the configuration is an event of the
\* connection (session.updated, 380-381); the program reads events only inside
\* "async for event in conn" (361-362), which it enters after the replay
ConfirmationReadable == runPc = "events"

\* C28: on a new connection nothing is replayed and no captured audio is
\* forwarded before the configuration push has been confirmed by the session,
\* so not before the program has begun to read the connection's events
C28_ActiveAfterConfirmation ==
    [][ (Len(sent') > Len(sent) \/ (lastBlock' # lastBlock /\ lastBlock'.fate = "forwarded"))
        => ConfirmationReadable ]_vars

\* C29: stop() tears down in order: the stop signal is set before the main
\* task is cancelled, the main task is cancelled before a device is torn down,
\* the capture stream and the render stream are both torn down before the
\* wake-word gate is deleted, and the gate is never asked to process a frame
\* once it is deleted
C29_TeardownOrder ==
    /\ [](MainTaskCancelled => stop_playback_event)
    /\ []((CaptureClosed \/ PlayerTerminated) => MainTaskCancelled)
    /\ [](GateDeleted => (CaptureClosed /\ PlayerTerminated))
    /\ [](GateDeleted => cbPc = "idle")

\* The agent's flags as reset_to_wakeword_state leaves them
FlagsReset ==
    /\ waiting_for_wakeword /\ ~should_send_audio /\ ~is_user_speaking
    /\ ~pending_music_interrupt_check /\ interrupt_check_start_time = NoTime
    /\ ~pending_non_music_wakeword_check /\ non_music_check_start_time = NoTime

C31_DetectionClearsBuffer ==
    [][ (cbPc \in {"detP4", "detM5"} /\ cbPc' = "idle") => input_buffer' = 0 ]_vars

\* The samples queued, in the order the callback will meet them
Queued == Flatten(queue)

\* C32: an output callback asking for n frames emits the first min(n,
\* available) queued samples in order, across chunks, then silence, and
\* leaves the rest queued in order; the queued samples are always a run of
\* consecutive samples ending with the last one delivered, so none is dropped,
\* repeated or reordered; only the reset of a new item empties the queue, and
\* it does so before the item's first chunk is added
C32_PlayerKeepsOrder ==
    /\ [][ PlayerCallback
           => \E n \in 1 .. MaxRequest :
                LET k == Min(n, Len(Queued))
                IN /\ outdata' = SubSeq(Queued, 1, k) \o Silence(n - k)
                   /\ Queued' = SubSeq(Queued, k + 1, Len(Queued)) ]_vars
    /\ [][ (Queued' # Queued /\ ~PlayerCallback)
           => \/ deltaPc.pc = "clear" /\ Queued' = <<>>
              \/ /\ deltaPc.pc = "add"
                 /\ Queued' = Queued \o [i \in 1 .. deltaPc.len |-> nextId + i - 1] ]_vars
    /\ [](\A i \in 1 .. Len(Queued) :
             Queued[i] = nextId - 1 - (Len(Queued) - i))
    /\ []((deltaPc.pc = "add" /\ deltaPc.fresh) => queue = <<>>)

\* C32: one callback has taken a whole chunk and the head of the next one,
\* and the rest of that chunk is what stays queued
C32_BlockAcrossChunks ==
    /\ outdata = <<1, 2, 3>> /\ queue = << <<4>> >>
    /\ last_audio_item_id # NoItemId /\ deltaPc = IdleDelta

\* C33: while the agent runs and no handler or callback is in the middle of
\* its writes, the microphone has a consumer: the gate (waiting for the wake
\* word with no window pending) or the forwarding (not waiting and sending)
C33_MicrophoneLive ==
    (running /\ cbPc = "idle" /\ LoopFree)
    => \/ waiting_for_wakeword /\ ~WindowPending
       \/ ~waiting_for_wakeword /\ should_send_audio

\* C34: once a detecting callback has returned, the agent does not forward
\* audio without a confirmation window unless speech-started was received
\* (is_user_speaking), whatever reset the loop ran between the callback's writes
C34_NoForwardingWithoutWindow ==
    (cbPc = "idle" /\ ~waiting_for_wakeword /\ should_send_audio /\ ~WindowPending)
    => is_user_speaking

\* C35: a worker paused by the interrupt signal is resumed or stopped once
\* the interaction is over: with the agent back in WaitingForWakeword, the
\* signal does not stay set for ever with the worker paused in its loop
C35_PauseEnds ==
    (WorkerPaused(1) /\ music_interrupt_event /\ AgentMode = "WaitingForWakeword")
    ~> (~music_interrupt_event \/ threads[1].pc # "loop")

\* C36: while is_playing_music is false no worker is in its loop, playing or
\* paused
C36_NoWorkerWithoutMusic ==
    ~is_playing_music => \A w \in Workers : threads[w].pc # "loop"

\* C37: a confirmation window is closed by speech-started or by its timeout,
\* never by both: speech-started is not accepted for a window whose timeout
\* the capture callback has found elapsed and is about to act upon
C37_WindowResolvedOnce ==
    [][ (EvSpeechStarted /\ WindowPending) => cbPc \notin {"tmoM1", "tmoP1"} ]_vars

\* C38: once stop() has set the playback stop signal, the signal stays set:
\* no tool call handled during the shutdown clears it
C38_StopSignalStays == stopPc # "idle" => stop_playback_event

\* C39: the failure counter of _run_agent goes down only at the head of the
\* loop while a replay is pending, and then to zero before the attempt is
\* counted; a connection that is established with no replay pending leaves it
\* as it was; with auto-reconnect and no replay pending the failure that
\* brings it to three ends the run, whatever sessions lay in between; and a
\* clean close under auto-reconnect leaves the counter and the run alone and
\* is followed by the next attempt after a sleep of 2 s
C39_BudgetSurvivesSessions ==
    [][ /\ ~needs_history_injection
           => reconnect_attempts' \in {reconnect_attempts, reconnect_attempts + 1}
        /\ reconnect_attempts' < reconnect_attempts
           => (needs_history_injection /\ runPc = "top" /\ reconnect_attempts' \in {0, 1})
        /\ (~connection /\ connection' /\ runPc' \in {"events", "inject"})
           => reconnect_attempts' = IF needs_history_injection THEN 0 ELSE reconnect_attempts
        /\ (auto_reconnect /\ ~needs_history_injection
              /\ reconnect_attempts' = MaxReconnectAttempts
              /\ reconnect_attempts = MaxReconnectAttempts - 1)
           => (~running' /\ runPc' = "done")
        /\ (StreamEnds /\ auto_reconnect)
           => /\ running' /\ runPc' = "sleep" /\ wait_time' = CloseDelay
              /\ CloseDelay = 2
              /\ reconnect_attempts' = reconnect_attempts
        /\ (runPc = "sleep" /\ runPc' # "sleep") => (runPc' = "top" /\ running')
      ]_vars

\* C39: a session established after two failures has been closed cleanly, the
\* counter still at two
C39_CleanCloseAfterFailures ==
    /\ auto_reconnect /\ ~needs_history_injection /\ running
    /\ runPc = "sleep" /\ wait_time = CloseDelay
    /\ reconnect_attempts = MaxReconnectAttempts - 1

\* C40: while the handler of a play_music request runs, the worker of the
\* prior job does not go from paused back to playing
C40_PriorJobStaysPaused ==
    [][ (tool.name = "play_music" /\ ~tool.raised /\ WorkerPaused(1))
        => ~WorkerPlaying(1)' ]_vars
====
